---------------------------- MODULE Spec2Model ----------------------------
(***************************************************************************)
(* A model of the async-mcp protocol engine (src/src/protocol.rs) running  *)
(* over the in-memory transport (src/src/transport/inmemory_transport.rs). *)
(*                                                                         *)
(* Two engines share one connection: "c" is the engine on the              *)
(* ClientInMemoryTransport, "s" the engine the factory's task runs on the  *)
(* paired ServerInMemoryTransport.  Each async fn is cut at its await      *)
(* points; one action is one uninterrupted stretch of one task.  The       *)
(* engine "s" is the one a Server (src/src/server.rs) builds and listens   *)
(* on: the user's handlers plus the handshake and tools handlers.          *)
(*                                                                         *)
(* Time is abstracted.  A request's timeout is either "short" (it may      *)
(* elapse at any moment of the wait) or "long" (it exceeds every           *)
(* processing delay: it elapses only once nothing else can happen).        *)
(*                                                                         *)
(* Beside the engines the module models, each on variables of its own:     *)
(* Server::create_progress / update_progress, the in-memory transport used *)
(* without an engine, the stdio client transport with its child process    *)
(* (src/src/transport/stdio_transport.rs), the session table of the HTTP  *)
(* host (src/src/sse/http_server.rs), the framing of the SSE stream        *)
(* (src/src/transport/sse_transport.rs) and the broadcast channel of a     *)
(* WebSocket connection (src/src/transport/ws_transport.rs).               *)
(***************************************************************************)
EXTENDS Integers, Sequences, FiniteSets, TLC

\* ------------------------------------------------------------ bounds
MaxCalls == 2       \* request() calls issued on one connection
MaxInject == 2      \* messages written to the channels by code outside the engines
MaxProgress == 3    \* create_progress / update_progress calls on the server
MaxSend == 3        \* send() calls on the bare in-memory client transport
MaxRecv == 3        \* receive() calls on the bare in-memory client transport
MaxLines == 2       \* send() calls and receive() calls on the stdio client transport
MaxSessions == 2    \* connections the HTTP host accepts
MaxPosts == 2       \* POST /message requests the HTTP host answers
MaxBody == 3        \* characters between the braces of a message's JSON text
MaxEvents == 1      \* SSE events put on one stream
CHUNK_SIZE == 3     \* sse_transport.rs 43, scaled down from 16 * 1024 bytes
WsCapacity == 2     \* ws_transport.rs 76 and http_server.rs 304, scaled down from 100
MaxWsMsgs == 4      \* messages that arrive on one WebSocket connection

\* ------------------------------------------------------------ constants
Engines == {"c", "s"}
Peer(e) == IF e = "c" THEN "s" ELSE "c"

ErrMethodNotFound == -32601
ErrInternalError == -32603

Methods == {"echo", "fail", "hang", "nosuch"}
NotifMethods == {"n_ok", "n_fail", "n_none"}
Params == {"p1", "p2"}

\* The tool registry the server was built with (ServerBuilder::register_tool).
RegisteredTools == {"known"}
ToolMethods == {"tools/list", "tools/call"}

\* ------------------------------------------------------------ messages
\* val is the params of a request and the result of a response, None when
\* absent; code and msg are the error of a response, 0 and "" when absent.
\* A result that is a CallToolResponse is its two parts: val the text of
\* content[0], is_error its is_error flag (FALSE everywhere else).
None == ""
NoMsg == [kind |-> "none", id |-> 0, method |-> "", val |-> None, code |-> 0, msg |-> "", is_error |-> FALSE]
Request(i, m, p) == [kind |-> "req", id |-> i, method |-> m, val |-> p, code |-> 0, msg |-> "", is_error |-> FALSE]
Response(i, r) == [kind |-> "resp", id |-> i, method |-> "", val |-> r, code |-> 0, msg |-> "", is_error |-> FALSE]
ErrorResponse(i, c, msg) ==
    [kind |-> "resp", id |-> i, method |-> "", val |-> None, code |-> c, msg |-> msg,
     is_error |-> FALSE]
Notification(m) == [kind |-> "notif", id |-> 0, method |-> m, val |-> None, code |-> 0, msg |-> "", is_error |-> FALSE]
NotificationWith(m, p) == [Notification(m) EXCEPT !.val = p]

\* A frame that is not a JSON-RPC message: a transport that parses what it
\* reads (stdio_transport.rs 28, 92: serde_json::from_str(&line)?) fails
\* receive() on it, for that frame alone.
Malformed == [kind |-> "bad", id |-> 0, method |-> "", val |-> None, code |-> 0, msg |-> "", is_error |-> FALSE]

\* str::contains
Contains(s, sub) ==
    \E i \in 1..(Len(s) - Len(sub) + 1) : SubSeq(s, i, i + Len(sub) - 1) = sub

VARIABLES
    request_id,        \* [Engines -> Nat]: Protocol.request_id
    pending_requests,  \* [Engines -> set of <<id, call>>]: Protocol.pending_requests, id -> oneshot sender
    listen,            \* [Engines -> [pc, cur, last]]: position of each listen() loop
    calls,             \* [1..MaxCalls -> record]: each request() call and its oneshot slot
    q,                 \* [Engines -> Seq(msg)]: the mpsc channel engine e receives from
    cl_tx,             \* ClientInMemoryTransport.tx is Some
    cl_rx,             \* ClientInMemoryTransport.rx is Some
    closePc,           \* position of ClientInMemoryTransport::close
    clientApi,         \* "Client": the engine is wrapped in client::Client; "Protocol": used directly
    injected,          \* messages written by code outside the engines so far
    curSent,           \* history: what listen() sent since its last receive()
    allocLog,          \* history: the ids request() allocated, in allocation order
    handlers,          \* history: [Engines -> Nat], handler futures started and not yet completed
    recvFailed,        \* history: [Engines -> BOOLEAN], a receive() of this listen() has failed
    state,             \* Server.state: client_capabilities, client_info, initialized
    user_handlers,     \* the tools methods the user gave ServerBuilder::request_handler
    progress_counter,  \* ServerState.progress_counter
    progress,          \* [1..MaxProgress -> record]: each create_progress / update_progress call
    tokenLog,          \* history: the tokens create_progress allocated, in allocation order
    factory,           \* bare transport: the task server_factory spawns ("none" before open())
    tx,                \* bare transport: ClientInMemoryTransport.tx is Some
    rx,                \* bare transport: ClientInMemoryTransport.rx is Some
    server_handle,     \* bare transport: ClientInMemoryTransport.server_handle is Some
    chan,              \* bare transport: [up, down], the two mpsc channels
    task,              \* bare transport: [pc, msg], position of the spawned server task
    reader,            \* bare transport: position of a receive() call on the client
    closing,           \* bare transport: position of a close() call on the client
    sendLog,           \* history: [msg, ok] of every completed client send()
    recvLog,           \* history: what the client's receive() calls returned
    taskLog,           \* history: the messages the server task's receive() returned
    program,           \* stdio: ClientStdioTransport.program ("none" before open())
    stdin,             \* stdio: ClientStdioTransport.stdin is Some
    stdout,            \* stdio: ClientStdioTransport.stdout is Some
    child,             \* stdio: ClientStdioTransport.child is Some
    proc,              \* stdio: the child process, "none" | "running" | "exited"
    pipe,              \* stdio: [in, out], the lines in the child's stdin and stdout pipes
    stdioClose,        \* stdio: position of a close() call
    stdioReader,       \* stdio: position of a receive() call
    stdioSent,         \* history: number of completed send() calls
    stdinBuf,          \* the BufWriter around the child's stdin holds unwritten bytes
    stdioRecvLog,      \* history: what the receive() calls returned
    signals,           \* history: the signals close() sent to the child
    sessions,          \* HTTP host: SessionState.sessions, session id -> "Sse" | "Ws"
    conns,             \* HTTP host: the session ids whose connection is open
    inbox,             \* HTTP host: [session id -> Seq(msg)], each SSE transport's message channel
    httpLog,           \* history: [sid, msg, status] of every POST /message answered
    advertised,        \* HTTP host: the session ids sent to a client in an endpoint event
    sseSent,           \* SSE: the JSON texts formatted into events, in order
    sseStream,         \* SSE history: every byte put on the event stream so far
    sseWire,           \* SSE: the bytes of the stream no network read has returned yet
    sseBuffer,         \* SSE: ClientSseTransport.buffer
    sseInbound,        \* SSE: the messages handle_sse_chunk pushed to the inbound queue
    wsOpen,            \* WebSocket: the connection is open (the forwarding task holds the Sender)
    wsBuf,             \* WebSocket: the broadcast channel's values the Receiver has not read
    wsMissed,          \* WebSocket: values overwritten before the Receiver read them
    wsForwarded,       \* WebSocket history: number of messages forwarded to the channel
    wsListen,          \* WebSocket: the engine's listen() loop, "top" | "done"
    wsRecvLog          \* WebSocket history: what the receive() calls returned

engVars == <<request_id, pending_requests, listen, calls>>
tpVars == <<q, cl_tx, cl_rx, closePc>>
envVars == <<clientApi, injected>>
histVars == <<curSent, allocLog, handlers, recvFailed>>
srvVars == <<state, user_handlers>>
progVars == <<progress_counter, progress, tokenLog>>
\* What the engines, the in-memory transport and the handlers never touch.
memVars == <<factory, tx, rx, server_handle, chan, task, reader, closing,
             sendLog, recvLog, taskLog>>
stdioVars == <<program, stdin, stdout, child, proc, pipe, stdioClose,
               stdioReader, stdioSent, stdinBuf, stdioRecvLog, signals>>
httpVars == <<sessions, conns, inbox, httpLog, advertised>>
sseVars == <<sseSent, sseStream, sseWire, sseBuffer, sseInbound>>
wsVars == <<wsOpen, wsBuf, wsMissed, wsForwarded, wsListen, wsRecvLog>>
sideVars == <<progVars, memVars, stdioVars, httpVars, sseVars, wsVars>>
notProgVars == <<memVars, stdioVars, httpVars, sseVars, wsVars>>
notMemVars == <<progVars, stdioVars, httpVars, sseVars, wsVars>>
notStdioVars == <<progVars, memVars, httpVars, sseVars, wsVars>>
notHttpVars == <<progVars, memVars, stdioVars, sseVars, wsVars>>
notSseVars == <<progVars, memVars, stdioVars, httpVars, wsVars>>
notWsVars == <<progVars, memVars, stdioVars, httpVars, sseVars>>
\* What the parts outside the engines never touch.
coreVars == <<engVars, envVars, histVars, srvVars>>
vars == <<coreVars, tpVars, sideVars>>

\* Mutant of DefaultToolsInstalled: the default handlers are always added.
DefaultToolsInstalledAlways == TRUE

\* server.rs 185-207: Server::new adds the registry-backed tools/list and
\* tools/call when the builder has no handler under "tools/list".
DefaultToolsInstalled == "tools/list" \notin user_handlers

\* server.rs 174-207: the request handlers of the server's engine, which are
\* the user's plus "initialize" plus the default tools handlers.  Besides
\* the tools methods the user registered a handler that returns its params,
\* one that returns an error and one that never completes.  The client
\* engine is built without handlers.
RequestHandlers(e) ==
    IF e = "s"
    THEN {"echo", "fail", "hang", "nested", "initialize"} \cup user_handlers
         \cup (IF DefaultToolsInstalled THEN ToolMethods ELSE {})
    ELSE {}

\* server.rs 180-183: the user's notification handlers plus
\* "notifications/initialized".
NotificationHandlers(e) ==
    IF e = "s" THEN {"n_ok", "n_fail", "n_typed", "notifications/initialized"} ELSE {}

CallIds == 1..MaxCalls

\* http_server.rs 209, 309: the ids Uuid::new_v4() can give out.
SessionIds == {"session-" \o ToString(i) : i \in 1..MaxSessions}

IdleCall == [pc |-> "idle", eng |-> "c", id |-> 0, method |-> "", params |-> "",
             tmo |-> "", slot |-> "empty", val |-> NoMsg, result |-> "",
             delivered |-> 0, wc |-> FALSE, prev |-> "", nested |-> FALSE]

IdleProgress == [pc |-> "idle", op |-> "", token |-> "", result |-> ""]

\* protocol.rs 248-256 and server.rs 166-171: the engines and the server
\* state as built.
InitState ==
    /\ request_id = [e \in Engines |-> 0]
    /\ pending_requests = [e \in Engines |-> {}]
    /\ listen = [e \in Engines |-> [pc |-> IF e = "c" /\ clientApi = "Client" THEN "unspawned" ELSE "top",
                                   cur |-> NoMsg, last |-> "none"]]
    /\ calls = [k \in CallIds |-> IdleCall]
    /\ q = [e \in Engines |-> <<>>]
    /\ cl_tx = TRUE
    /\ cl_rx = TRUE
    /\ closePc = "open"
    /\ injected = 0
    /\ curSent = [e \in Engines |-> <<>>]
    /\ allocLog = [e \in Engines |-> <<>>]
    /\ handlers = [e \in Engines |-> 0]
    /\ recvFailed = [e \in Engines |-> FALSE]
    /\ state = [client_capabilities |-> None, client_info |-> None, initialized |-> FALSE]
    /\ progress_counter = 0
    /\ progress = [k \in 1..MaxProgress |-> IdleProgress]
    /\ tokenLog = <<>>
    /\ factory = "none"
    /\ tx = FALSE
    /\ rx = FALSE
    /\ server_handle = FALSE
    /\ chan = [up |-> <<>>, down |-> <<>>]
    /\ task = [pc |-> "unspawned", msg |-> None]
    /\ reader = "idle"
    /\ closing = "idle"
    /\ sendLog = <<>>
    /\ recvLog = <<>>
    /\ taskLog = <<>>
    /\ program = "none"
    /\ stdin = FALSE
    /\ stdout = FALSE
    /\ child = FALSE
    /\ proc = "none"
    /\ pipe = [in |-> <<>>, out |-> <<>>]
    /\ stdioClose = "idle"
    /\ stdioReader = "idle"
    /\ stdioSent = 0
    /\ stdinBuf = FALSE
    /\ stdioRecvLog = <<>>
    /\ signals = <<>>
    /\ sessions = [x \in {} |-> ""]
    /\ conns = {}
    /\ inbox = [x \in SessionIds |-> <<>>]
    /\ httpLog = <<>>
    /\ advertised = {}
    /\ sseSent = <<>>
    /\ sseStream = <<>>
    /\ sseWire = <<>>
    /\ sseBuffer = <<>>
    /\ sseInbound = <<>>
    /\ wsOpen = TRUE
    /\ wsBuf = <<>>
    /\ wsMissed = 0
    /\ wsForwarded = 0
    /\ wsListen = "top"
    /\ wsRecvLog = <<>>

\* A connection whose server side was built without tools handlers of the
\* user's own.
Init ==
    /\ clientApi \in {"Client", "Protocol"}
    /\ user_handlers = {}
    /\ InitState

\* server.rs 63-77: the methods ServerBuilder::request_handler can be given
\* that Server::new has a handler of its own for.
BuiltinMethods == ToolMethods \cup {"initialize"}

\* A server built with any choice of the user's own handlers for them.
InitServer ==
    /\ clientApi = "Protocol"
    /\ user_handlers \in SUBSET BuiltinMethods
    /\ InitState


\* ------------------------------------------------------------ transport
\* The factory's task runs the server engine's listen() and ends when it
\* returns; its ServerInMemoryTransport (receiver and sender) is dropped then.
ServerTaskEnded == listen["s"].pc \in {"done", "failed"}

\* Every Sender of the channel engine e receives from has been dropped.
SendersGone(e) == IF e = "s" THEN ~cl_tx ELSE ServerTaskEnded

\* The Receiver of the channel engine e receives from has been dropped.
ReceiverGone(e) == IF e = "c" THEN ~cl_rx ELSE ServerTaskEnded

\* Transport::send on engine e's transport succeeds: the client's tx is Some,
\* and mpsc::Sender::send succeeds while the peer's Receiver exists.
TransportSendOk(e) ==
    IF e = "c" THEN cl_tx /\ ~ReceiverGone("s") ELSE ~ReceiverGone("c")

\* The channels after engine e hands message m to its transport.
QAfterSend(e, m) == [q EXCEPT ![Peer(e)] = Append(@, m)]

\* ------------------------------------------------------------ pending table
PendingIds(e) == {x[1] : x \in pending_requests[e]}
\* Mutant of PendingCall: the sender of some pending entry, whatever its id.
PendingCallAny(e, i) == CHOOSE k \in CallIds : \E j \in PendingIds(e) : <<j, k>> \in pending_requests[e]

\* The call whose sender the table holds under id i.
PendingCall(e, i) == CHOOSE k \in CallIds : <<i, k>> \in pending_requests[e]

\* HashMap::insert(id, tx): an entry already under id is replaced.
PendingInsert(p, i, k) == {x \in p : x[1] # i} \cup {<<i, k>>}

\* HashMap::remove(&id)
PendingRemove(p, i) == {x \in p : x[1] # i}

\* Mutant of FetchAdd: the increment is lost (a load and a store that race).
FetchAddLost(v) == v

\* AtomicU64::fetch_add(1): the counter after the call (the call returns the
\* value before it).
FetchAdd(v) == v + 1

\* ------------------------------------------------------------ request()
\* Nothing but a wait for a reply is left to happen: every listen() loop is
\* parked or stuck, every started call has reached its wait.
ListenCanStep(e) ==
    \/ listen[e].pc = "top" /\ ~ReceiverGone(e)
    \/ listen[e].pc = "inrecv" /\ (q[e] # <<>> \/ SendersGone(e))
    \/ listen[e].pc = "inhandler" /\ listen[e].cur.method # "hang"
    \/ listen[e].pc = "inhandler" /\ listen[e].cur.val = "bad"

Busy ==
    \/ \E e \in Engines : ListenCanStep(e)
    \/ \E k \in CallIds : calls[k].pc \in {"alloc", "ins"}
    \/ \E k \in CallIds : calls[k].pc = "await" /\ calls[k].slot # "empty"
    \/ closePc \in {"c2", "c2w"} /\ listen["c"].pc # "inrecv"
    \/ closePc = "c3" /\ ServerTaskEnded

\* protocol.rs 54: let id = self.request_id.fetch_add(1, SeqCst), in a
\* request() on engine e; n tells a call made by the handler that engine e's
\* listen() is awaiting.
RequestStart(e, k, m, p, t, n) ==
    /\ calls[k].pc = "idle"
    /\ k > 1 => calls[k - 1].pc # "idle"
    /\ LET id == request_id[e]
       IN /\ request_id' = [request_id EXCEPT ![e] = FetchAdd(@)]
          /\ allocLog' = [allocLog EXCEPT ![e] = Append(@, id)]
          /\ calls' = [calls EXCEPT ![k] =
                 [@ EXCEPT !.pc = "alloc", !.eng = e, !.id = id, !.method = m,
                           !.params = p, !.tmo = t, !.nested = n,
                           !.prev = IF k > 1 /\ calls[k - 1].pc = "done"
                                    THEN calls[k - 1].result ELSE ""]]
    /\ UNCHANGED <<pending_requests, listen, tpVars, envVars, sideVars, srvVars, curSent, handlers, recvFailed>>

\* request() called on the client engine.
CallStart(k, m, p, t) == RequestStart("c", k, m, p, t, FALSE)

\* protocol.rs 57-63: pending.insert(id, tx).  A sender replaced in the map
\* is dropped: its receiver observes a closed channel.
CallInsert(k) ==
    /\ calls[k].pc = "alloc"
    /\ LET e == calls[k].eng
           i == calls[k].id
           old == {x[2] : x \in {y \in pending_requests[e] : y[1] = i}}
       IN /\ pending_requests' = [pending_requests EXCEPT ![e] = PendingInsert(@, i, k)]
          /\ calls' = [j \in CallIds |->
                 IF j = k THEN [calls[j] EXCEPT !.pc = "ins"]
                 ELSE IF j \in old /\ calls[j].slot = "empty"
                      THEN [calls[j] EXCEPT !.slot = "closed"]
                      ELSE calls[j]]
    /\ UNCHANGED <<request_id, listen, tpVars, envVars, sideVars, srvVars, histVars>>

\* protocol.rs 66-72: self.transport.send(&msg).await?
CallSend(k) ==
    /\ calls[k].pc = "ins"
    /\ LET e == calls[k].eng
       IN IF TransportSendOk(e)
          THEN /\ q' = QAfterSend(e, Request(calls[k].id, calls[k].method, calls[k].params))
               /\ calls' = [calls EXCEPT ![k].pc = "await"]
          ELSE /\ q' = q
               /\ calls' = [calls EXCEPT ![k].pc = "done", ![k].result = "SendErr"]
    /\ UNCHANGED <<request_id, pending_requests, listen, cl_tx, cl_rx, closePc,
                   envVars, sideVars, srvVars, histVars>>

\* protocol.rs 75-86: the oneshot receiver resolves.  Ok(response) is
\* returned; a closed channel removes the id and fails with "Request cancelled".
CallComplete(k) ==
    /\ calls[k].pc = "await"
    /\ calls[k].slot # "empty"
    /\ IF calls[k].slot = "value"
       THEN /\ calls' = [calls EXCEPT ![k].pc = "done", ![k].result = "Ok"]
            /\ pending_requests' = pending_requests
       ELSE /\ calls' = [calls EXCEPT ![k].pc = "done", ![k].result = "Cancelled"]
            /\ pending_requests' = [pending_requests EXCEPT
                   ![calls[k].eng] = PendingRemove(@, calls[k].id)]
    /\ UNCHANGED <<request_id, listen, tpVars, envVars, sideVars, srvVars, histVars>>

\* The pending table after request() ends with a timeout: the early return
\* of protocol.rs 75-77 (map_err(..)?) leaves the table as it is.
PendingAfterTimeout(p, i) == p

\* protocol.rs 75-77: timeout(options.timeout, rx) elapses.
CallTimeout(k) ==
    /\ calls[k].pc = "await"
    /\ calls[k].slot = "empty"
    /\ calls[k].tmo = "short" \/ ~Busy
    /\ calls' = [calls EXCEPT ![k].pc = "done", ![k].result = "Timeout"]
    /\ pending_requests' = [pending_requests EXCEPT
           ![calls[k].eng] = PendingAfterTimeout(@, calls[k].id)]
    /\ UNCHANGED <<request_id, listen, tpVars, envVars, sideVars, srvVars, histVars>>

\* protocol.rs 37-46: notify()
Notify(m) ==
    /\ injected < MaxInject
    /\ TransportSendOk("c")
    /\ q' = QAfterSend("c", Notification(m))
    /\ injected' = injected + 1
    /\ UNCHANGED <<engVars, cl_tx, cl_rx, closePc, clientApi, sideVars, histVars, srvVars>>


\* ------------------------------------------------------------ listen()
\* protocol.rs 92-100 with inmemory_transport.rs 29-34, 91-96: receive() takes
\* the rx lock (tokio's Mutex is FIFO: a close() already queued goes first).
\* rx = None is Err("Transport not opened"): listen() logs it and continues.
ListenReceive(e) ==
    /\ listen[e].pc = "top"
    /\ e = "c" => closePc # "c2w"
    /\ IF e = "c" /\ ~cl_rx
       THEN /\ listen' = [listen EXCEPT ![e] = [pc |-> "top", cur |-> NoMsg, last |-> "err"]]
            /\ recvFailed' = [recvFailed EXCEPT ![e] = TRUE]
       ELSE /\ listen' = [listen EXCEPT ![e] = [pc |-> "inrecv", cur |-> NoMsg, last |-> @.last]]
            /\ recvFailed' = recvFailed
    /\ curSent' = [curSent EXCEPT ![e] = <<>>]
    /\ UNCHANGED <<request_id, pending_requests, calls, tpVars, envVars, sideVars, srvVars,
                   allocLog, handlers>>

\* inmemory_transport.rs 40-43, 102-105 with protocol.rs 102-105: rx.recv()
\* resolves with None once every sender is dropped and the channel is
\* drained: listen() breaks and returns Ok.
ListenRecvNone(e) ==
    /\ listen[e].pc = "inrecv"
    /\ q[e] = <<>>
    /\ SendersGone(e)
    /\ listen' = [listen EXCEPT ![e].pc = "done", ![e].last = "eof"]
    /\ UNCHANGED <<request_id, pending_requests, calls, tpVars, envVars, sideVars, srvVars, histVars>>

\* inmemory_transport.rs 36-39, 98-101: rx.recv() resolves with the next
\* message of the channel; receive() returns it and releases the rx lock.
Received(e) == Head(q[e])

\* Mutant of HasReceived: the loop also takes the next message while the
\* handler of the previous one is still running (handlers spawned, not awaited).
HasReceivedWhileHandling(e, kind) ==
    listen[e].pc \in {"inrecv", "inhandler"} /\ q[e] # <<>> /\ Received(e).kind = kind

\* listen() holds a message of the given kind that receive() just returned.
HasReceived(e, kind) ==
    listen[e].pc = "inrecv" /\ q[e] # <<>> /\ Received(e).kind = kind
QAfterReceive(e) == [q EXCEPT ![e] = Tail(@)]

\* Mutant of ListenRecvErr: the error of receive() is returned from listen().
ListenRecvErrReturning(e) ==
    /\ HasReceived(e, "bad")
    /\ listen' = [listen EXCEPT ![e] = [pc |-> "failed", cur |-> NoMsg, last |-> "err"]]
    /\ q' = IF e = "s" THEN [q EXCEPT !["s"] = <<>>] ELSE QAfterReceive(e)
    /\ recvFailed' = [recvFailed EXCEPT ![e] = TRUE]
    /\ UNCHANGED <<request_id, pending_requests, calls, cl_tx, cl_rx, closePc,
                   envVars, sideVars, srvVars, curSent, allocLog, handlers>>

\* protocol.rs 94-99: receive() returned Err for the frame it read: the
\* error is logged and the loop continues with the next receive().
ListenRecvErr(e) ==
    /\ HasReceived(e, "bad")
    /\ listen' = [listen EXCEPT ![e] = [pc |-> "top", cur |-> NoMsg, last |-> "err"]]
    /\ q' = QAfterReceive(e)
    /\ recvFailed' = [recvFailed EXCEPT ![e] = TRUE]
    /\ UNCHANGED <<request_id, pending_requests, calls, cl_tx, cl_rx, closePc,
                   envVars, sideVars, srvVars, curSent, allocLog, handlers>>

\* self.transport.send(&m).await? inside listen(), while it handles message
\* cur, from channels qq: on success the loop goes on, on failure listen()
\* returns the error.  A listen() that returns on the server ends the
\* factory's task, which drops its receiver.
ListenSend(e, qq, cur, m) ==
    IF TransportSendOk(e)
    THEN /\ q' = [qq EXCEPT ![Peer(e)] = Append(@, m)]
         /\ curSent' = [curSent EXCEPT ![e] = Append(@, m)]
         /\ listen' = [listen EXCEPT ![e] = [pc |-> "top", cur |-> cur, last |-> "msg"]]
    ELSE /\ q' = IF e = "s" THEN [qq EXCEPT !["s"] = <<>>] ELSE qq
         /\ curSent' = curSent
         /\ listen' = [listen EXCEPT ![e] = [pc |-> "failed", cur |-> cur, last |-> "msg"]]

\* protocol.rs 291-296: serde_json::from_value::<Req>(params) succeeds.
Deserializes(p) == p # "bad"

\* Mutant of CallTool: the text for an unknown tool does not name it.
CallToolNameless(name) ==
    IF name \notin RegisteredTools
    THEN [text |-> "Tool not found", is_error |-> TRUE]
    ELSE [text |-> "called " \o name, is_error |-> FALSE]

\* registry.rs 20-48: Tools::call_tool.  An unknown name yields the text
\* format!("Tool {} not found", request_name) with is_error Some(true); the
\* registered tool returns its own response.
CallTool(name) ==
    IF name \notin RegisteredTools
    THEN [text |-> "Tool " \o name \o " not found", is_error |-> TRUE]
    ELSE [text |-> "called " \o name, is_error |-> FALSE]

\* server.rs 193-206 and the user's closures: what the closure registered
\* under a method returns.  "echo" returns its params, "fail" an error;
\* "initialize" returns the InitializeResponse; the tools methods run the
\* default registry-backed closures when Server::new installed them and the
\* user's otherwise.
Closure(req) ==
    CASE req.method = "echo" ->
             [ok |-> TRUE, val |-> req.val, err |-> "", is_error |-> FALSE]
      [] req.method = "initialize" ->
             \* server.rs 174-179 with protocol.rs 203-212: HashMap::insert
             \* puts handle_init in the place of a handler of the user's.
             [ok |-> TRUE, val |-> "InitializeResponse", err |-> "", is_error |-> FALSE]
      [] req.method = "tools/list" ->
             [ok |-> TRUE, err |-> "", is_error |-> FALSE,
              val |-> IF DefaultToolsInstalled THEN "tools: known" ELSE "user tools/list"]
      [] req.method = "tools/call" ->
             IF DefaultToolsInstalled
             THEN [ok |-> TRUE, val |-> CallTool(req.val).text, err |-> "",
                   is_error |-> CallTool(req.val).is_error]
             ELSE [ok |-> TRUE, val |-> "user tools/call", err |-> "", is_error |-> FALSE]
      [] OTHER ->
             [ok |-> FALSE, val |-> None, err |-> "handler failed", is_error |-> FALSE]

\* protocol.rs 290-304: the Result of TypedRequestHandler::handle.  Params
\* that do not deserialize return the serde error through `?` before the
\* closure is called.
HandlerResult(req) ==
    IF ~Deserializes(req.val)
    THEN [ok |-> FALSE, val |-> None, err |-> "invalid type", is_error |-> FALSE,
          invoked |-> FALSE]
    ELSE [ok |-> Closure(req).ok, val |-> Closure(req).val, err |-> Closure(req).err,
          is_error |-> Closure(req).is_error, invoked |-> TRUE]

\* server.rs 229-241: the initialize closure stores the request's
\* capabilities and client_info in the server state.
StateAfterRequest(st, req) ==
    IF req.method = "initialize" /\ HandlerResult(req).invoked
    THEN [st EXCEPT !.client_capabilities = req.val, !.client_info = req.val]
    ELSE st

\* server.rs 251-256: the notifications/initialized closure sets initialized.
StateAfterNotification(st, n) ==
    IF n.method = "notifications/initialized"
    THEN [st EXCEPT !.initialized = TRUE]
    ELSE st

\* The handler future of the request resolves by itself: the user's "hang"
\* closure, once called, never does, and the "nested" closure resolves when
\* the request() it awaits has returned (NestedReturn).
HandlerCompletes(req) == req.method \notin {"hang", "nested"} \/ ~HandlerResult(req).invoked

\* Mutant of InternalErrorResponse: a fixed message in place of the error's.
InternalErrorResponseFixedMessage(req, err) ==
    ErrorResponse(req.id, ErrInternalError, "Internal error")

\* protocol.rs 135-147: the Response built from a handler's Err(e), with
\* message e.to_string().
InternalErrorResponse(req, err) ==
    ErrorResponse(req.id, ErrInternalError, err)

\* Mutant of HandlerResponse: the Response keeps the default id.
HandlerResponseDefaultId(req) ==
    IF HandlerResult(req).ok
    THEN [Response(0, HandlerResult(req).val) EXCEPT !.is_error = HandlerResult(req).is_error]
    ELSE ErrorResponse(0, ErrInternalError, HandlerResult(req).err)

\* protocol.rs 298-303 and 130-148: the Response sent for a request that has
\* a handler: Ok is wrapped into a success Response with the request's id,
\* Err into an InternalError Response.
HandlerResponse(req) ==
    IF HandlerResult(req).ok
    THEN [Response(req.id, HandlerResult(req).val) EXCEPT !.is_error = HandlerResult(req).is_error]
    ELSE InternalErrorResponse(req, HandlerResult(req).err)

\* Mutant of MethodNotFoundResponse: the message does not name the method.
MethodNotFoundResponseNoName(req) ==
    ErrorResponse(req.id, ErrMethodNotFound, "Method not found")

\* protocol.rs 150-162: no handler under the request's method.
\* format!("Method not found: {}", request.method)
MethodNotFoundResponse(req) ==
    ErrorResponse(req.id, ErrMethodNotFound, "Method not found: " \o req.method)

\* protocol.rs 108, 127-130, 150-162: an inbound Request.  With a handler the
\* handler future starts (listen() awaits it); without one MethodNotFound is
\* sent.
ListenRequest(e) ==
    /\ HasReceived(e, "req")
    /\ IF Received(e).method \in RequestHandlers(e)
       THEN /\ listen' = [listen EXCEPT ![e] =
                   [pc |-> "inhandler", cur |-> Received(e), last |-> "msg"]]
            /\ q' = QAfterReceive(e)
            /\ handlers' = [handlers EXCEPT ![e] = @ + 1]
            /\ UNCHANGED curSent
       ELSE /\ ListenSend(e, QAfterReceive(e), Received(e), MethodNotFoundResponse(Received(e)))
            /\ UNCHANGED handlers
    /\ UNCHANGED <<request_id, pending_requests, calls, cl_tx, cl_rx, closePc,
                   envVars, sideVars, srvVars, allocLog, recvFailed>>

\* protocol.rs 130-149: the handler future completes (the "hang" handler never
\* does) and its Response is sent.
HandlerReturn(e) ==
    /\ listen[e].pc = "inhandler"
    /\ HandlerCompletes(listen[e].cur)
    /\ ListenSend(e, q, listen[e].cur, HandlerResponse(listen[e].cur))
    /\ handlers' = [handlers EXCEPT ![e] = @ - 1]
    /\ state' = IF e = "s" THEN StateAfterRequest(state, listen[e].cur) ELSE state
    /\ UNCHANGED <<request_id, pending_requests, calls, cl_tx, cl_rx, closePc,
                   envVars, sideVars, user_handlers, allocLog, recvFailed>>

\* The handler of a "nested" request is running in engine e's listen().
InNestedHandler(e) ==
    /\ listen[e].pc = "inhandler"
    /\ listen[e].cur.method = "nested"
    /\ HandlerResult(listen[e].cur).invoked

\* protocol.rs 48-54 called from the closure that protocol.rs 130 awaits: the
\* "nested" handler calls request() on the engine that runs it.
NestedStart(e, k, t) ==
    /\ InNestedHandler(e)
    /\ \A j \in CallIds : ~calls[j].nested
    /\ RequestStart(e, k, "echo", "p1", t, TRUE)

\* protocol.rs 130-149: the "nested" closure got the Result of its request()
\* and returns it; the Response built from it is sent.
NestedReturn(e) ==
    /\ InNestedHandler(e)
    /\ \E k \in CallIds :
          /\ calls[k].nested
          /\ calls[k].pc = "done"
          /\ calls' = [calls EXCEPT ![k].nested = FALSE]
          /\ ListenSend(e, q, listen[e].cur,
                        IF calls[k].result = "Ok"
                        THEN Response(listen[e].cur.id, calls[k].val.val)
                        ELSE InternalErrorResponse(listen[e].cur, calls[k].result))
    /\ handlers' = [handlers EXCEPT ![e] = @ - 1]
    /\ UNCHANGED <<request_id, pending_requests, cl_tx, cl_rx, closePc,
                   envVars, sideVars, srvVars, allocLog, recvFailed>>

\* Mutant of PendingAfterResponse: the entry is looked up and left in place.
PendingAfterResponseKept(p, i) == p

\* protocol.rs 112: pending.remove(&id)
PendingAfterResponse(p, i) == PendingRemove(p, i)

\* Mutant of CallReturned: a oneshot receiver outlives its request().
CallReturnedNever(k) == FALSE

\* protocol.rs 74-86: request() has returned and dropped its oneshot
\* receiver; protocol.rs 113: `let _ = tx.send(response)` then fails and the
\* response is discarded.
CallReturned(k) == calls[k].pc = "done"

\* protocol.rs 109-115: an inbound Response.  The sender under its id is
\* removed and given the response; oneshot::Sender::send fails, and the
\* response is discarded, when the receiver is gone (the call has returned).
ListenResponse(e) ==
    /\ HasReceived(e, "resp")
    /\ LET i == Received(e).id
       IN /\ pending_requests' = [pending_requests EXCEPT ![e] = PendingAfterResponse(@, i)]
          /\ IF i \in PendingIds(e) /\ ~CallReturned(PendingCall(e, i))
             THEN calls' = [calls EXCEPT ![PendingCall(e, i)] =
                      [@ EXCEPT !.slot = "value", !.val = Received(e),
                                !.delivered = @ + 1]]
             ELSE calls' = calls
    /\ listen' = [listen EXCEPT ![e] = [pc |-> "top", cur |-> Received(e), last |-> "msg"]]
    /\ q' = QAfterReceive(e)
    /\ UNCHANGED <<request_id, cl_tx, cl_rx, closePc, envVars, sideVars, srvVars, histVars>>

\* serde_json::from_value::<N>(Value::Null) succeeds for the handler's
\* parameter type: the unit type of notifications/initialized (server.rs
\* 246-248) and the optional parameters of the user's "n_ok" and "n_fail"
\* do, the struct that "n_typed" takes does not.
NullDeserializes(m) == m # "n_typed"

\* protocol.rs 324-344: TypedNotificationHandler::handle.  Absent params are
\* deserialized from Null; params that do not deserialize are logged and
\* Null is deserialized in their place; a failure of that returns through
\* `?` without calling the closure.  Otherwise the closure runs and its
\* Result is the handler's ("n_fail" returns an error).
NotificationResult(n) ==
    LET fromNull == n.val = None \/ ~Deserializes(n.val)
        invoked == ~fromNull \/ NullDeserializes(n.method)
    IN [invoked |-> invoked, ok |-> invoked /\ n.method # "n_fail"]

\* Mutant of ListenNotification: a failing handler is answered with an error
\* Response, as a failing request handler is.
ListenNotificationReplying(e) ==
    /\ HasReceived(e, "notif")
    /\ IF Received(e).method \in NotificationHandlers(e) /\ Received(e).method = "n_fail"
       THEN ListenSend(e, QAfterReceive(e), Received(e),
                       ErrorResponse(0, ErrInternalError, "handler failed"))
       ELSE /\ listen' = [listen EXCEPT ![e] =
                   [pc |-> "top", cur |-> Received(e), last |-> "msg"]]
            /\ q' = QAfterReceive(e)
            /\ curSent' = curSent
    /\ UNCHANGED <<request_id, pending_requests, calls, cl_tx, cl_rx, closePc,
                   envVars, sideVars, srvVars, allocLog, handlers, recvFailed>>

\* protocol.rs 116-121: an inbound Notification.  The handler, when there is
\* one, is awaited (it starts and completes within this step); its error is
\* returned from listen() by the `?`.
ListenNotification(e) ==
    /\ HasReceived(e, "notif")
    /\ IF Received(e).method \in NotificationHandlers(e) /\ ~NotificationResult(Received(e)).ok
       THEN /\ listen' = [listen EXCEPT ![e] =
                   [pc |-> "failed", cur |-> Received(e), last |-> "msg"]]
            /\ q' = IF e = "s" THEN [q EXCEPT !["s"] = <<>>] ELSE QAfterReceive(e)
       ELSE /\ listen' = [listen EXCEPT ![e] =
                   [pc |-> "top", cur |-> Received(e), last |-> "msg"]]
            /\ q' = QAfterReceive(e)
    /\ state' = IF /\ e = "s"
                   /\ Received(e).method \in NotificationHandlers(e)
                   /\ NotificationResult(Received(e)).invoked
                THEN StateAfterNotification(state, Received(e))
                ELSE state
    /\ UNCHANGED <<request_id, pending_requests, calls, cl_tx, cl_rx, closePc,
                   envVars, sideVars, user_handlers, histVars>>

\* ------------------------------------------------------------ close()
\* inmemory_transport.rs 141: *self.tx.lock().await = None
CloseTx ==
    /\ closePc = "open"
    /\ cl_tx' = FALSE
    /\ closePc' = "c2"
    /\ UNCHANGED <<engVars, q, cl_rx, envVars, sideVars, srvVars, histVars>>

\* inmemory_transport.rs 142: *self.rx.lock().await = None.  A receive() in
\* progress holds the lock across rx.recv().await: close() queues behind it.
CloseRx ==
    /\ closePc \in {"c2", "c2w"}
    /\ IF listen["c"].pc = "inrecv"
       THEN /\ closePc = "c2"
            /\ closePc' = "c2w"
            /\ UNCHANGED <<cl_rx, q, calls>>
       ELSE /\ closePc' = "c3"
            /\ cl_rx' = FALSE
            /\ q' = [q EXCEPT !["c"] = <<>>]
            /\ calls' = [k \in CallIds |->
                   IF calls[k].pc = "await" THEN [calls[k] EXCEPT !.wc = TRUE]
                   ELSE calls[k]]
    /\ UNCHANGED <<request_id, pending_requests, listen, cl_tx, envVars, sideVars, srvVars, histVars>>

\* inmemory_transport.rs 144-148: the server task's JoinHandle is awaited.
CloseJoin ==
    /\ closePc = "c3"
    /\ ServerTaskEnded
    /\ closePc' = "closed"
    /\ UNCHANGED <<engVars, q, cl_tx, cl_rx, envVars, sideVars, srvVars, histVars>>

\* Mutant of CloseAgain: a close() that finds no JoinHandle fails.
CloseAgainFailing ==
    /\ closePc = "closed"
    /\ cl_tx' = FALSE
    /\ cl_rx' = FALSE
    /\ q' = IF cl_rx THEN [q EXCEPT !["c"] = <<>>] ELSE q
    /\ closePc' = "closeErr"
    /\ UNCHANGED <<coreVars, sideVars>>

\* inmemory_transport.rs 140-149, called on a transport whose close() has
\* completed: None is stored over tx and rx, server_handle.take() is None
\* and the call returns Ok.
CloseAgain ==
    /\ closePc = "closed"
    /\ cl_tx' = FALSE
    /\ cl_rx' = FALSE
    /\ q' = IF cl_rx THEN [q EXCEPT !["c"] = <<>>] ELSE q
    /\ closePc' = "reclosed"
    /\ UNCHANGED <<coreVars, sideVars>>

\* ------------------------------------------------------------ the peer
\* Messages that code other than the two engines writes to a channel: the
\* factory's task may send anything to the client, a holder of a clone of the
\* client transport anything to the server.
InjectMsgs(e) ==
    IF e = "c"
    THEN {Response(i, "p1") : i \in 0..MaxCalls}
         \cup {Response(0, "p2"), Request(0, "nosuch", "p1")}
    ELSE {Request(i, m, "p1") : i \in {0, 1}, m \in Methods}
         \cup {Request(0, "echo", "bad"), Response(0, "p1"), Malformed,
               NotificationWith("n_typed", "bad")}

Inject(e, m) ==
    /\ injected < MaxInject
    /\ TransportSendOk(Peer(e))
    /\ q' = [q EXCEPT ![e] = Append(@, m)]
    /\ injected' = injected + 1
    /\ UNCHANGED <<engVars, cl_tx, cl_rx, closePc, clientApi, sideVars, histVars, srvVars>>

\* ------------------------------------------------------------ progress
\* Mutant of ProgressToken: every token is built from the counter's first value.
ProgressTokenFixed(n) == "progress-" \o ToString(0)

\* server.rs 119-126: format!("progress-{}", n)
ProgressToken(n) == "progress-" \o ToString(n)

\* The $/progress notification that carries a token.
ProgressNotification(t) == [Notification("$/progress") EXCEPT !.val = t]

\* server.rs 119-132: create_progress takes the counter's value with
\* fetch_add(1) and builds the token and the Progress from it.
CreateProgress(k) ==
    /\ progress[k].pc = "idle"
    /\ k > 1 => progress[k - 1].pc # "idle"
    /\ progress' = [progress EXCEPT ![k] =
           [pc |-> "built", op |-> "create", token |-> ProgressToken(progress_counter),
            result |-> ""]]
    /\ progress_counter' = FetchAdd(progress_counter)
    /\ tokenLog' = Append(tokenLog, ProgressToken(progress_counter))
    /\ UNCHANGED <<coreVars, tpVars, notProgVars>>

\* server.rs 141-146: update_progress builds the Progress from the token it
\* is given.
UpdateProgress(k, t) ==
    /\ progress[k].pc = "idle"
    /\ k > 1 => progress[k - 1].pc # "idle"
    /\ progress' = [progress EXCEPT ![k] =
           [pc |-> "built", op |-> "update", token |-> t, result |-> ""]]
    /\ UNCHANGED <<coreVars, tpVars, notProgVars, progress_counter, tokenLog>>

\* server.rs 134-138, 148-150 with protocol.rs 37-46: the notification is
\* handed to the server's transport; create_progress returns the token,
\* update_progress Ok, or either the error of the send.
ProgressNotify(k) ==
    /\ progress[k].pc = "built"
    /\ IF TransportSendOk("s")
       THEN /\ q' = QAfterSend("s", ProgressNotification(progress[k].token))
            /\ progress' = [progress EXCEPT ![k].pc = "done", ![k].result = "Ok"]
       ELSE /\ q' = q
            /\ progress' = [progress EXCEPT ![k].pc = "done", ![k].result = "SendErr"]
    /\ UNCHANGED <<coreVars, cl_tx, cl_rx, closePc, notProgVars, progress_counter, tokenLog>>

\* ------------------------------------------------------------ bare transport
\* The in-memory transport used without an engine, as its tests use it: a
\* client that sends, receives and closes, and the task its factory spawned.
Msgs == {"a", "b"}
Factories == {"echo_server", "sleeper"}

\* The task has returned: its ServerInMemoryTransport, with the Receiver of
\* the up channel and the Sender of the down channel, is dropped.
TaskEnded == task.pc = "ended"

\* The messages of the client's completed send() calls that returned Ok.
RECURSIVE OkOf(_)
OkOf(l) ==
    IF l = <<>> THEN <<>>
    ELSE IF l[1].ok THEN <<l[1].msg>> \o OkOf(Tail(l)) ELSE OkOf(Tail(l))

SentOk == OkOf(sendLog)

\* The messages among the results of the client's receive() calls.
RECURSIVE MsgsOf(_)
MsgsOf(l) ==
    IF l = <<>> THEN <<>>
    ELSE IF l[1] \in Msgs THEN <<l[1]>> \o MsgsOf(Tail(l)) ELSE MsgsOf(Tail(l))

Delivered == MsgsOf(recvLog)

\* Mutant of ChanPush: the newest message overtakes the queued ones.
ChanPushFront(c, m) == <<m>> \o c

\* mpsc::Sender::send: the message joins the end of the channel.
ChanPush(c, m) == Append(c, m)

\* inmemory_transport.rs 122-138: open() creates the two channels, spawns
\* the factory's task with the server transport and stores its own ends.
Open(f) ==
    /\ factory = "none"
    /\ factory' = f
    /\ chan' = [up |-> <<>>, down |-> <<>>]
    /\ task' = [pc |-> IF f = "echo_server" THEN "receive" ELSE "sleep", msg |-> None]
    /\ rx' = TRUE
    /\ tx' = TRUE
    /\ server_handle' = TRUE
    /\ UNCHANGED <<reader, closing, sendLog, recvLog, taskLog>>
    /\ UNCHANGED <<coreVars, tpVars, notMemVars>>

\* Mutant of ClientSendOk: a send() that does not look at tx.
ClientSendOkIgnoringClose == factory # "none" /\ ~TaskEnded

\* inmemory_transport.rs 109-120: send() fails when tx is None and when the
\* channel's Receiver has been dropped.
ClientSendOk == tx /\ ~TaskEnded

ClientSend(m) ==
    /\ Len(sendLog) < MaxSend
    /\ IF ClientSendOk
       THEN /\ chan' = [chan EXCEPT !.up = ChanPush(@, m)]
            /\ sendLog' = Append(sendLog, [msg |-> m, ok |-> TRUE])
       ELSE /\ chan' = chan
            /\ sendLog' = Append(sendLog, [msg |-> m, ok |-> FALSE])
    /\ UNCHANGED <<factory, tx, rx, server_handle, task, reader, closing, recvLog, taskLog>>
    /\ UNCHANGED <<coreVars, tpVars, notMemVars>>

\* inmemory_transport.rs 91-95: receive() takes the rx lock; with rx None it
\* returns Err, otherwise it waits in rx.recv() with the lock held.  The
\* lock is fair: a receive() called while close() waits for it queues
\* behind close().
ClientReceive ==
    /\ reader = "idle"
    /\ Len(recvLog) < MaxRecv
    /\ closing # "rxwait"
    /\ IF rx
       THEN /\ reader' = "inrecv"
            /\ recvLog' = recvLog
       ELSE /\ reader' = "idle"
            /\ recvLog' = Append(recvLog, "Err")
    /\ UNCHANGED <<factory, tx, rx, server_handle, chan, task, closing, sendLog, taskLog>>
    /\ UNCHANGED <<coreVars, tpVars, notMemVars>>

\* inmemory_transport.rs 97-106: rx.recv() resolves with the next message,
\* or with None once the channel is empty and its Sender is dropped.
ClientReceived ==
    /\ reader = "inrecv"
    /\ \/ /\ chan.down # <<>>
          /\ recvLog' = Append(recvLog, Head(chan.down))
          /\ chan' = [chan EXCEPT !.down = Tail(@)]
       \/ /\ chan.down = <<>>
          /\ TaskEnded
          /\ recvLog' = Append(recvLog, "None")
          /\ chan' = chan
    /\ reader' = "idle"
    /\ UNCHANGED <<factory, tx, rx, server_handle, task, closing, sendLog, taskLog>>
    /\ UNCHANGED <<coreVars, tpVars, notMemVars>>

\* inmemory_transport.rs 141: *self.tx.lock().await = None
ClientCloseTx ==
    /\ closing = "idle"
    /\ factory # "none"
    /\ tx' = FALSE
    /\ closing' = "tx"
    /\ UNCHANGED <<factory, rx, server_handle, chan, task, reader, sendLog, recvLog, taskLog>>
    /\ UNCHANGED <<coreVars, tpVars, notMemVars>>

\* inmemory_transport.rs 142: *self.rx.lock().await = None.  The lock is
\* held by a receive() that waits in rx.recv(); close() waits for it.  The
\* dropped Receiver discards what the channel holds.
ClientCloseRx ==
    /\ closing \in {"tx", "rxwait"}
    /\ IF reader = "inrecv"
       THEN /\ closing = "tx"
            /\ closing' = "rxwait"
            /\ UNCHANGED <<rx, chan>>
       ELSE /\ closing' = "take"
            /\ rx' = FALSE
            /\ chan' = [chan EXCEPT !.down = <<>>]
    /\ UNCHANGED <<factory, tx, server_handle, task, reader, sendLog, recvLog, taskLog>>
    /\ UNCHANGED <<coreVars, tpVars, notMemVars>>

\* inmemory_transport.rs 144: self.server_handle.lock().await.take()
ClientCloseTake ==
    /\ closing = "take"
    /\ server_handle' = FALSE
    /\ closing' = IF server_handle THEN "join" ELSE "done"
    /\ UNCHANGED <<factory, tx, rx, chan, task, reader, sendLog, recvLog, taskLog>>
    /\ UNCHANGED <<coreVars, tpVars, notMemVars>>

\* inmemory_transport.rs 145: handle.await? resolves when the task returns.
ClientCloseJoin ==
    /\ closing = "join"
    /\ TaskEnded
    /\ closing' = "done"
    /\ UNCHANGED <<factory, tx, rx, server_handle, chan, task, reader, sendLog, recvLog, taskLog>>
    /\ UNCHANGED <<coreVars, tpVars, notMemVars>>

\* The task's end drops the server transport: what the up channel holds is
\* discarded with its Receiver.
TaskEnd == [pc |-> "ended", msg |-> None]

\* inmemory_transport.rs 29-45 as called by tests::echo_server (157-163):
\* receive() returns the next message, or None once the channel is empty and
\* the client's Sender is dropped, which ends the loop.
EchoReceive ==
    /\ task.pc = "receive"
    /\ \/ /\ chan.up # <<>>
          /\ task' = [pc |-> "send", msg |-> Head(chan.up)]
          /\ taskLog' = Append(taskLog, Head(chan.up))
          /\ chan' = [chan EXCEPT !.up = Tail(@)]
       \/ /\ chan.up = <<>>
          /\ ~tx
          /\ task' = TaskEnd
          /\ taskLog' = taskLog
          /\ chan' = chan
    /\ UNCHANGED <<factory, tx, rx, server_handle, reader, closing, sendLog, recvLog>>
    /\ UNCHANGED <<coreVars, tpVars, notMemVars>>

\* inmemory_transport.rs 47-54 as called by tests::echo_server (157-163):
\* the message goes back; a failed send (the client's Receiver is dropped)
\* breaks the loop.
EchoSend ==
    /\ task.pc = "send"
    /\ IF rx
       THEN /\ chan' = [chan EXCEPT !.down = ChanPush(@, task.msg)]
            /\ task' = [pc |-> "receive", msg |-> None]
       ELSE /\ chan' = [chan EXCEPT !.up = <<>>]
            /\ task' = TaskEnd
    /\ UNCHANGED <<factory, tx, rx, server_handle, reader, closing, sendLog, recvLog, taskLog>>
    /\ UNCHANGED <<coreVars, tpVars, notMemVars>>

\* inmemory_transport.rs 198-203 (tests::test_graceful_shutdown): the task
\* sleeps, then drops the server transport and returns.
SleeperWake ==
    /\ task.pc = "sleep"
    /\ task' = TaskEnd
    /\ chan' = [chan EXCEPT !.up = <<>>]
    /\ UNCHANGED <<factory, tx, rx, server_handle, reader, closing, sendLog, recvLog, taskLog>>
    /\ UNCHANGED <<coreVars, tpVars, notMemVars>>

\* ------------------------------------------------------------ stdio client
\* The children of the transport's tests: cat copies its input to its output
\* and exits at end of input, sleep neither reads nor writes and outlasts
\* the close(), read takes one line and exits.
Programs == {"cat", "sleep", "read"}

\* The child's stdout pipe is at end of file: every write end is closed.
StdoutAtEof == proc = "exited" /\ pipe.out = <<>>

\* stdio_transport.rs 113-136: open() spawns the program with piped stdin
\* and stdout and stores the three handles.
StdioOpen(pr) ==
    /\ program = "none"
    /\ program' = pr
    /\ proc' = "running"
    /\ stdin' = TRUE
    /\ stdout' = TRUE
    /\ child' = TRUE
    /\ UNCHANGED <<pipe, stdioClose, stdioReader, stdioSent, stdinBuf, stdioRecvLog, signals>>
    /\ UNCHANGED <<coreVars, tpVars, notStdioVars>>

\* BufWriter::flush on the child's stdin succeeds: there is nothing to
\* write, or the pipe still has its reader.  A write to a pipe whose reader
\* has exited fails (EPIPE) and the bytes stay in the buffer.
FlushOk == ~stdinBuf \/ proc = "running"

\* stdio_transport.rs 97-111: send() puts one line into the BufWriter of the
\* child's stdin and flushes; it fails with stdin None and on a pipe whose
\* reader is gone, the line then staying in the buffer.
StdioSend(m) ==
    /\ stdioSent < MaxLines
    /\ stdioSent' = stdioSent + 1
    /\ pipe' = IF stdin /\ proc = "running" THEN [pipe EXCEPT !.in = Append(@, m)] ELSE pipe
    /\ stdinBuf' = IF stdin /\ proc # "running" THEN TRUE ELSE stdinBuf
    /\ UNCHANGED <<program, stdin, stdout, child, proc, stdioClose, stdioReader, stdioRecvLog, signals>>
    /\ UNCHANGED <<coreVars, tpVars, notStdioVars>>

\* stdio_transport.rs 75-80: receive() takes the stdout lock; with stdout
\* None it returns the error "Transport not opened", otherwise it waits in
\* read_line.
StdioReceive ==
    /\ stdioReader = "idle"
    /\ Len(stdioRecvLog) < MaxLines
    /\ IF stdout
       THEN /\ stdioReader' = "inrecv"
            /\ stdioRecvLog' = stdioRecvLog
       ELSE /\ stdioReader' = "idle"
            /\ stdioRecvLog' = Append(stdioRecvLog, "Transport not opened")
    /\ UNCHANGED <<program, stdin, stdout, child, proc, pipe, stdioClose, stdioSent, stdinBuf, signals>>
    /\ UNCHANGED <<coreVars, tpVars, notStdioVars>>

\* stdio_transport.rs 82-94: read_line returns a line, parsed into the
\* message, or 0 bytes at end of file, which gives Ok(None).
StdioReceived ==
    /\ stdioReader = "inrecv"
    /\ \/ /\ pipe.out # <<>>
          /\ stdioRecvLog' = Append(stdioRecvLog, Head(pipe.out))
          /\ pipe' = [pipe EXCEPT !.out = Tail(@)]
       \/ /\ StdoutAtEof
          /\ stdioRecvLog' = Append(stdioRecvLog, "None")
          /\ pipe' = pipe
    /\ stdioReader' = "idle"
    /\ UNCHANGED <<program, stdin, stdout, child, proc, stdioClose, stdioSent, stdinBuf, signals>>
    /\ UNCHANGED <<coreVars, tpVars, notStdioVars>>

\* cat and read take the next line of their input; cat writes it out, read
\* exits.
ChildReadLine ==
    /\ proc = "running"
    /\ program \in {"cat", "read"}
    /\ pipe.in # <<>>
    /\ IF program = "cat"
       THEN /\ pipe' = [in |-> Tail(pipe.in), out |-> Append(pipe.out, Head(pipe.in))]
            /\ proc' = proc
       ELSE /\ pipe' = [pipe EXCEPT !.in = <<>>]
            /\ proc' = "exited"
    /\ UNCHANGED <<program, stdin, stdout, child, stdioClose, stdioReader, stdioSent, stdinBuf, stdioRecvLog, signals>>
    /\ UNCHANGED <<coreVars, tpVars, notStdioVars>>

\* cat and read exit when their input is at end of file: the transport has
\* dropped its stdin handle and the pipe is empty.
ChildSeesEof ==
    /\ proc = "running"
    /\ program \in {"cat", "read"}
    /\ pipe.in = <<>>
    /\ ~stdin
    /\ proc' = "exited"
    /\ UNCHANGED <<program, stdin, stdout, child, pipe, stdioClose, stdioReader, stdioSent, stdinBuf, stdioRecvLog, signals>>
    /\ UNCHANGED <<coreVars, tpVars, notStdioVars>>

\* stdio_transport.rs 142-149: phase 1, flush stdin and drop it.  The `?` on
\* a failed flush returns from close() before stdin is set to None.
StdioCloseStdin ==
    /\ stdioClose = "idle"
    /\ program # "none"
    /\ IF stdin /\ ~FlushOk
       THEN /\ stdioClose' = "failed"
            /\ UNCHANGED <<stdin, stdinBuf>>
       ELSE /\ stdin' = FALSE
            /\ stdinBuf' = FALSE
            /\ stdioClose' = "lock"
    /\ UNCHANGED <<program, stdout, child, proc, pipe, stdioReader, stdioSent, stdioRecvLog, signals>>
    /\ UNCHANGED <<coreVars, tpVars, notStdioVars>>

\* stdio_transport.rs 151-168: without a child handle close() returns; a
\* child that has exited is forgotten and close() returns; otherwise the
\* grace sleep begins.
StdioCloseTryWait ==
    /\ stdioClose = "lock"
    /\ IF ~child
       THEN /\ stdioClose' = "done"
            /\ child' = child
       ELSE IF proc = "exited"
       THEN /\ stdioClose' = "done"
            /\ child' = FALSE
       ELSE /\ stdioClose' = "grace"
            /\ child' = child
    /\ UNCHANGED <<program, stdin, stdout, proc, pipe, stdioReader, stdioSent, stdinBuf, stdioRecvLog, signals>>
    /\ UNCHANGED <<coreVars, tpVars, notStdioVars>>

\* tokio::process::Child::kill().await: SIGKILL is sent and the exit awaited.
Kill == "SIGKILL"

\* stdio_transport.rs 170-174: after the grace sleep a child that still runs
\* is killed with child.kill().await, and the second sleep follows.
StdioCloseGraceOver ==
    /\ stdioClose = "grace"
    /\ IF proc = "running"
       THEN /\ signals' = Append(signals, Kill)
            /\ proc' = "exited"
       ELSE UNCHANGED <<signals, proc>>
    /\ stdioClose' = "force"
    /\ UNCHANGED <<program, stdin, stdout, child, pipe, stdioReader, stdioSent, stdinBuf, stdioRecvLog>>
    /\ UNCHANGED <<coreVars, tpVars, notStdioVars>>

\* stdio_transport.rs 176-179: a child that still runs is killed again.
StdioCloseForce ==
    /\ stdioClose = "force"
    /\ IF proc = "running"
       THEN /\ signals' = Append(signals, Kill)
            /\ proc' = "exited"
       ELSE UNCHANGED <<signals, proc>>
    /\ stdioClose' = "wait"
    /\ UNCHANGED <<program, stdin, stdout, child, pipe, stdioReader, stdioSent, stdinBuf, stdioRecvLog>>
    /\ UNCHANGED <<coreVars, tpVars, notStdioVars>>

\* Mutant of ChildAfterWait: close() returns with the handle still stored.
ChildAfterWaitKept == TRUE

\* stdio_transport.rs 186: *child_guard = None
ChildAfterWait == FALSE

\* stdio_transport.rs 181-188: child.wait() resolves once the child has
\* exited; the handle is cleared and close() returns.
StdioCloseWait ==
    /\ stdioClose = "wait"
    /\ proc = "exited"
    /\ child' = ChildAfterWait
    /\ stdioClose' = "done"
    /\ UNCHANGED <<program, stdin, stdout, proc, pipe, stdioReader, stdioSent, stdinBuf, stdioRecvLog, signals>>
    /\ UNCHANGED <<coreVars, tpVars, notStdioVars>>

\* ------------------------------------------------------------ HTTP host
\* HashMap::insert(session_id, transport)
SessionsInsert(t, id, kind) ==
    [x \in (DOMAIN t) \cup {id} |-> IF x = id THEN kind ELSE t[x]]

\* http_server.rs 209-219 (sse_handler) and 303-313 (ws_handler): a fresh
\* session id is drawn and the connection's transport stored under it.
Connect(id, kind) ==
    /\ id \in SessionIds \ DOMAIN sessions
    /\ sessions' = SessionsInsert(sessions, id, kind)
    /\ conns' = conns \cup {id}
    /\ UNCHANGED <<inbox, httpLog, advertised>>
    /\ UNCHANGED <<coreVars, tpVars, notHttpVars>>

\* Mutant of EndpointReady: the endpoint event goes out before the insert.
EndpointReadyBeforeInsert(id) == TRUE

\* http_server.rs 215-229: sse_handler reaches send_event("endpoint", ..)
\* after it has stored the session's transport in the table.
EndpointReady(id) == id \in DOMAIN sessions /\ sessions[id] = "Sse"

\* http_server.rs 226-233: the endpoint event with the POST URL of the
\* session is sent on the connection.
SendEndpoint(id) ==
    /\ id \in SessionIds \ advertised
    /\ EndpointReady(id)
    /\ advertised' = advertised \cup {id}
    /\ UNCHANGED <<sessions, conns, inbox, httpLog>>
    /\ UNCHANGED <<coreVars, tpVars, notHttpVars>>

\* The client of an open connection goes away: the SSE response stream is
\* dropped, or handle_ws_connection returns.  Neither handler, nor any other
\* code of the host, takes the session out of the table.
Disconnect(id) ==
    /\ id \in conns
    /\ conns' = conns \ {id}
    /\ UNCHANGED <<sessions, inbox, httpLog, advertised>>
    /\ UNCHANGED <<coreVars, tpVars, notHttpVars>>

\* http_server.rs 260-268: the request reaches an SSE transport's
\* send_message.
Forwarded(sid) ==
    /\ sid # None
    /\ sid \in DOMAIN sessions
    /\ sessions[sid] = "Sse"

\* Mutant of MessageStatus: a WebSocket session is answered like an SSE one.
MessageStatusWsAccepted(sid) ==
    IF sid = None THEN 400
    ELSE IF sid \notin DOMAIN sessions THEN 404
    ELSE 202

\* http_server.rs 255-287: the status message_handler answers with; the mpsc
\* send to a transport the table holds cannot fail, its Receiver being part
\* of that transport.
MessageStatus(sid) ==
    IF sid = None THEN 400
    ELSE IF sid \notin DOMAIN sessions THEN 404
    ELSE IF sessions[sid] = "Ws" THEN 400
    ELSE 202

\* http_server.rs 255-287: message_handler
PostMessage(sid, m) ==
    /\ Len(httpLog) < MaxPosts
    /\ inbox' = IF Forwarded(sid) THEN [inbox EXCEPT ![sid] = Append(@, m)] ELSE inbox
    /\ httpLog' = Append(httpLog, [sid |-> sid, msg |-> m, status |-> MessageStatus(sid)])
    /\ UNCHANGED <<sessions, conns, advertised>>
    /\ UNCHANGED <<coreVars, tpVars, notHttpVars>>

\* ------------------------------------------------------------ SSE framing
\* Text is a sequence of bytes.  "a" is any ASCII character that is neither
\* a comma nor white space; "L" "T" are the lead and the trailing byte of a
\* two-byte UTF-8 character; "EV" stands for the bytes of `event: message`,
\* "D" for those of `data:`, "NL" for the line feed.  serde_json::to_string
\* writes no white space outside strings, so a space of a message's text is
\* a space inside one of its strings.
BodyBytes == {"a", ",", " ", "L", "T"}

Min(a, b) == IF a < b THEN a ELSE b

\* std::str::from_utf8 accepts the bytes: every lead byte is followed by its
\* trailing byte and every trailing byte follows a lead byte.
ValidUtf8(b) ==
    \A i \in 1..Len(b) :
        /\ b[i] = "L" => (i < Len(b) /\ b[i + 1] = "T")
        /\ b[i] = "T" => (i > 1 /\ b[i - 1] = "L")

\* The JSON texts of messages: an object, braces around a body.
RECURSIVE Bodies(_)
Bodies(n) ==
    IF n = 0 THEN {<<>>}
    ELSE Bodies(n - 1) \cup {Append(b, c) : b \in Bodies(n - 1), c \in BodyBytes}

JsonTexts == {<<"{">> \o b \o <<"}">> : b \in {x \in Bodies(MaxBody) : ValidUtf8(x)}}

\* str::is_char_boundary(i), i counting the bytes before the position.
IsCharBoundary(t, i) == i = 0 \/ i >= Len(t) \/ t[i + 1] # "T"

\* sse_transport.rs 64-66: end moves back until json[end..] starts with a
\* comma or a space, or end reaches start.  Slicing a str inside a
\* character panics: the result is -1 then.
RECURSIVE FindSplit(_, _, _)
FindSplit(json, start, end) ==
    IF end <= start THEN end
    ELSE IF ~IsCharBoundary(json, end) THEN -1
    ELSE IF json[end + 1] \in {",", " "} THEN end
    ELSE FindSplit(json, start, end - 1)

\* sse_transport.rs 57-75: the chunks the loop cuts json[start..] into;
\* <<"panic">> stands for the panic of a slice inside a character.
RECURSIVE Chunks(_, _)
Chunks(json, start) ==
    IF start >= Len(json) THEN <<>>
    ELSE LET max == Min(start + CHUNK_SIZE, Len(json))
             found == IF max < Len(json) THEN FindSplit(json, start, max) ELSE max
             end == IF found = start THEN max ELSE found
         IN IF found = -1 \/ ~IsCharBoundary(json, end)
            THEN <<<<"panic">>>>
            ELSE <<SubSeq(json, start + 1, end)>> \o Chunks(json, end)

\* sse_transport.rs 50-54: a text of at most CHUNK_SIZE bytes is one chunk.
FormatChunks(json) ==
    IF Len(json) <= CHUNK_SIZE THEN <<json>> ELSE Chunks(json, 0)

\* sse_transport.rs 437-446 (tests::test_parse_large_sse_message): the text
\* cut every n bytes; a piece that is not UTF-8 by itself is left out.
RECURSIVE FixedChunks(_, _)
FixedChunks(json, n) ==
    IF json = <<>> THEN <<>>
    ELSE LET k == Min(n, Len(json))
             piece == SubSeq(json, 1, k)
             rest == FixedChunks(SubSeq(json, k + 1, Len(json)), n)
         IN IF ValidUtf8(piece) THEN <<piece>> \o rest ELSE rest

\* One `data: <chunk>\n` line for each chunk.
RECURSIVE DataLines(_)
DataLines(chunks) ==
    IF chunks = <<>> THEN <<>>
    ELSE <<"D", " ">> \o Head(chunks) \o <<"NL">> \o DataLines(Tail(chunks))

\* sse_transport.rs 48, 71, 75: the event line, the data lines and the
\* blank line that ends the event.
EventBytes(chunks) == <<"EV", "NL">> \o DataLines(chunks) \o <<"NL">>

RECURSIVE TrimStart(_)
TrimStart(t) == IF t # <<>> /\ Head(t) = " " THEN TrimStart(Tail(t)) ELSE t

RECURSIVE TrimEnd(_)
TrimEnd(t) ==
    IF t # <<>> /\ t[Len(t)] = " " THEN TrimEnd(SubSeq(t, 1, Len(t) - 1)) ELSE t

\* str::trim
Trim(t) == TrimEnd(TrimStart(t))

\* The position of the first "NL" of t, 0 if there is none.
RECURSIVE FirstNL(_, _)
FirstNL(t, i) ==
    IF i > Len(t) THEN 0 ELSE IF t[i] = "NL" THEN i ELSE FirstNL(t, i + 1)

\* str::lines
RECURSIVE Lines(_)
Lines(t) ==
    IF t = <<>> THEN <<>>
    ELSE LET p == FirstNL(t, 1)
         IN IF p = 0 THEN <<t>>
            ELSE <<SubSeq(t, 1, p - 1)>> \o Lines(SubSeq(t, p + 1, Len(t)))

\* sse_transport.rs 172-187: current_data, the trimmed data of every data
\* line, concatenated.
RECURSIVE CurrentData(_)
CurrentData(lines) ==
    IF lines = <<>> THEN <<>>
    ELSE LET line == Trim(Head(lines))
         IN (IF line # <<>> /\ Head(line) = "D" THEN Trim(Tail(line)) ELSE <<>>)
            \o CurrentData(Tail(lines))

\* serde_json::from_str accepts the text as a message.
ParsesAsMessage(t) ==
    /\ Len(t) >= 2
    /\ t[1] = "{"
    /\ t[Len(t)] = "}"
    /\ \A i \in 2..(Len(t) - 1) : t[i] \in BodyBytes
    /\ ValidUtf8(t)

\* sse_transport.rs 168-230: parse_sse_message gives the messages of an
\* event: one, or none when there is no data or it does not parse.
parse_sse_message(event) ==
    LET data == CurrentData(Lines(event))
    IN IF data # <<>> /\ ParsesAsMessage(data) THEN <<data>> ELSE <<>>

\* The position of the first "NL" "NL" of t, 0 if there is none.
RECURSIVE FindBlankLine(_, _)
FindBlankLine(t, i) ==
    IF i + 1 > Len(t) THEN 0
    ELSE IF t[i] = "NL" /\ t[i + 1] = "NL" THEN i
    ELSE FindBlankLine(t, i + 1)

\* sse_transport.rs 245-260: while the buffer holds a blank line, the event
\* before it is taken out, parsed and its message pushed.
RECURSIVE Drain(_, _)
Drain(buffer, inbound) ==
    LET pos == FindBlankLine(buffer, 1)
    IN IF pos = 0 THEN [buffer |-> buffer, inbound |-> inbound]
       ELSE Drain(SubSeq(buffer, pos + 2, Len(buffer)),
                  inbound \o parse_sse_message(SubSeq(buffer, 1, pos + 1)))

\* sse_transport.rs 232-264: handle_sse_chunk.  A chunk that is not UTF-8
\* by itself makes String::from_utf8 fail: the function returns the error
\* before the chunk reaches the buffer, and open()'s loop (400-407) goes on
\* with the next chunk.
handle_sse_chunk(buffer, inbound, chunk) ==
    IF ValidUtf8(chunk) THEN Drain(buffer \o chunk, inbound)
    ELSE [buffer |-> buffer, inbound |-> inbound]

\* The stream read in pieces: the inbound queue after the reads.
RECURSIVE AfterReads(_, _, _)
AfterReads(buffer, inbound, reads) ==
    IF reads = <<>> THEN inbound
    ELSE LET r == handle_sse_chunk(buffer, inbound, Head(reads))
         IN AfterReads(r.buffer, r.inbound, Tail(reads))

\* sse_transport.rs 42-79 and the test's cutting: a message is put on the
\* stream as one event, cut by format_sse_message (n = 0) or every n bytes.
\* A panic of format_sse_message puts nothing on the stream.
SseSend(json, n) ==
    /\ Len(sseSent) < MaxEvents
    /\ LET chunks == IF n = 0 THEN FormatChunks(json) ELSE FixedChunks(json, n)
       IN /\ <<"panic">> \notin {chunks[i] : i \in 1..Len(chunks)}
          /\ sseSent' = Append(sseSent, json)
          /\ sseStream' = sseStream \o EventBytes(chunks)
          /\ sseWire' = sseWire \o EventBytes(chunks)
    /\ UNCHANGED <<sseBuffer, sseInbound>>
    /\ UNCHANGED <<coreVars, tpVars, notSseVars>>

\* sse_transport.rs 400-407: the next network read returns the next n bytes
\* of the stream, which go through handle_sse_chunk.
SseRead(n) ==
    /\ n \in 1..Len(sseWire)
    /\ LET r == handle_sse_chunk(sseBuffer, sseInbound, SubSeq(sseWire, 1, n))
       IN /\ sseBuffer' = r.buffer
          /\ sseInbound' = r.inbound
    /\ sseWire' = SubSeq(sseWire, n + 1, Len(sseWire))
    /\ UNCHANGED <<sseSent, sseStream>>
    /\ UNCHANGED <<coreVars, tpVars, notSseVars>>

\* ------------------------------------------------------------ specifications
\* request() called with a method of Ms, params of Ps and a timeout of Ts.
Calls(Ms, Ps, Ts) ==
    \/ \E k \in CallIds, m \in Ms, p \in Ps, t \in Ts : CallStart(k, m, p, t)
    \/ \E k \in CallIds : CallInsert(k)
    \/ \E k \in CallIds : CallSend(k)
    \/ \E k \in CallIds : CallComplete(k)
    \/ \E k \in CallIds : CallTimeout(k)

\* The two engines of one connection, the client side used directly, with
\* close(): a short timeout covers every moment a timeout can elapse at.
Next ==
    \/ Calls(Methods, {"p1"}, {"short"})
    \/ \E e \in Engines : ListenReceive(e)
    \/ \E e \in Engines : ListenRecvNone(e)
    \/ \E e \in Engines : ListenRequest(e)
    \/ \E e \in Engines : HandlerReturn(e)
    \/ \E e \in Engines : ListenResponse(e)
    \/ \E e \in Engines : ListenNotification(e)
    \/ \E m \in NotifMethods : Notify(m)
    \/ CloseTx
    \/ CloseRx
    \/ CloseJoin

InitProtocol == Init /\ clientApi = "Protocol"

Spec == InitProtocol /\ [][Next]_vars

\* The connection of the end-to-end scenarios: the two engines alone, the
\* transport left open, the client side either client::Client or a Protocol.
NextE2E ==
    \/ Calls({"echo", "hang"}, Params, {"short", "long"})
    \/ \E e \in Engines : ListenReceive(e)
    \/ \E e \in Engines : ListenRequest(e)
    \/ \E e \in Engines : HandlerReturn(e)
    \/ \E e \in Engines : ListenResponse(e)

SpecE2E == Init /\ [][NextE2E]_vars

\* The calling side of one engine against any peer: request() and listen()
\* on the client transport, a peer that writes whatever it likes whenever it
\* likes and never ends, and close().
NextCaller ==
    \/ Calls({"echo"}, {"p1"}, {"short"})
    \/ ListenReceive("c")
    \/ ListenRequest("c")
    \/ ListenResponse("c")
    \/ \E m \in InjectMsgs("c") : Inject("c", m)
    \/ CloseTx
    \/ CloseRx

SpecCaller == InitProtocol /\ [][NextCaller]_vars

\* The listening side of one engine against any peer: listen() on the
\* server transport with its handlers, a peer that writes requests,
\* responses and notifications, and close() on the peer's transport.
NextListener ==
    \/ ListenReceive("s")
    \/ ListenRecvNone("s")
    \/ ListenRecvErr("s")
    \/ ListenRequest("s")
    \/ HandlerReturn("s")
    \/ ListenResponse("s")
    \/ ListenNotification("s")
    \/ \E m \in NotifMethods : Notify(m)
    \/ \E m \in InjectMsgs("s") : Inject("s", m)
    \/ CloseTx
    \/ CloseRx
    \/ CloseJoin
    \/ CloseAgain

SpecListener == InitProtocol /\ [][NextListener]_vars

\* What a client may send to a server: the handshake messages in any order,
\* the tools requests for a registered and for an unknown tool, a request to
\* a handler of the user's.
ServerMsgs ==
    {Request(0, "initialize", "p1"), Notification("notifications/initialized"),
     Request(0, "tools/list", "p1"), Request(1, "tools/call", "known"),
     Request(1, "tools/call", "missing"), Request(0, "echo", "p1"),
     NotificationWith("notifications/initialized", "bad")}

\* A Server (server.rs) listening on its transport, against any client.
NextServer ==
    \/ ListenReceive("s")
    \/ ListenRequest("s")
    \/ HandlerReturn("s")
    \/ ListenNotification("s")
    \/ \E m \in ServerMsgs : Inject("s", m)

SpecServer == InitServer /\ [][NextServer]_vars

\* What the peer of an engine with a "nested" handler writes.
NestedMsgs == {Request(0, "nested", "p1"), Request(1, "echo", "p1")}

\* An engine whose "nested" handler calls request() on that same engine,
\* next to a request() called from another task, against a peer that answers
\* every request it receives.
NextNested ==
    \/ ListenReceive("s")
    \/ ListenRequest("s")
    \/ HandlerReturn("s")
    \/ ListenResponse("s")
    \/ \E k \in CallIds : NestedStart("s", k, "short")
    \/ NestedReturn("s")
    \/ \E k \in CallIds : RequestStart("s", k, "echo", "p1", "short", FALSE)
    \/ \E k \in CallIds : CallInsert(k)
    \/ \E k \in CallIds : CallSend(k)
    \/ \E k \in CallIds : CallComplete(k)
    \/ \E k \in CallIds : CallTimeout(k)
    \/ ListenReceive("c")
    \/ ListenRequest("c")
    \/ \E m \in NestedMsgs : Inject("s", m)

SpecNested == InitProtocol /\ [][NextNested]_vars

\* Concurrent callers of create_progress and update_progress on one server
\* (and its clones, which share the state), the client closing its
\* transport at any moment.
NextProgress ==
    \/ \E k \in 1..MaxProgress : CreateProgress(k)
    \/ \E k \in 1..MaxProgress, t \in {"progress-0", "progress-1", "other"} : UpdateProgress(k, t)
    \/ \E k \in 1..MaxProgress : ProgressNotify(k)
    \/ CloseTx
    \/ CloseRx

SpecProgress == InitProtocol /\ [][NextProgress]_vars

\* The in-memory transport alone: a client that opens it with either
\* factory, sends, receives and closes in any interleaving.
NextTransport ==
    \/ \E f \in Factories : Open(f)
    \/ \E m \in Msgs : ClientSend(m)
    \/ ClientReceive
    \/ ClientReceived
    \/ ClientCloseTx
    \/ ClientCloseRx
    \/ ClientCloseTake
    \/ ClientCloseJoin
    \/ EchoReceive
    \/ EchoSend
    \/ SleeperWake

SpecTransport == InitProtocol /\ [][NextTransport]_vars

\* The stdio client transport alone, opened on one of the tests' programs:
\* sends, receives and one close() in any interleaving with the child.
NextStdio ==
    \/ \E pr \in Programs : StdioOpen(pr)
    \/ \E m \in Msgs : StdioSend(m)
    \/ StdioReceive
    \/ StdioReceived
    \/ ChildReadLine
    \/ ChildSeesEof
    \/ StdioCloseStdin
    \/ StdioCloseTryWait
    \/ StdioCloseGraceOver
    \/ StdioCloseForce
    \/ StdioCloseWait

SpecStdio == InitProtocol /\ [][NextStdio]_vars

\* The HTTP host: connections of both kinds open and close, and POST
\* /message arrives with no session id, an id the host never gave out, or
\* any id it can give out.
NextHttp ==
    \/ \E id \in SessionIds, kind \in {"Sse", "Ws"} : Connect(id, kind)
    \/ \E id \in SessionIds : SendEndpoint(id)
    \/ \E id \in SessionIds : Disconnect(id)
    \/ \E sid \in SessionIds \cup {None, "unknown"}, m \in Msgs : PostMessage(sid, m)

SpecHttp == InitProtocol /\ [][NextHttp]_vars

\* The SSE stream of one connection: messages are framed into events and the
\* client reads the stream in pieces of any size.
NextSse ==
    \/ \E json \in JsonTexts, n \in 0..CHUNK_SIZE : SseSend(json, n)
    \/ \E n \in 1..(MaxBody + 12) : SseRead(n)

SpecSse == InitProtocol /\ [][NextSse]_vars

\* ------------------------------------------------------------ WebSocket
\* tokio::sync::broadcast with one Receiver: send() stores the value; when
\* the channel already holds its capacity of unread values the oldest one is
\* overwritten and the Receiver has lagged by one more.
BroadcastSend(buf, m) ==
    IF Len(buf) < WsCapacity THEN Append(buf, m) ELSE Append(Tail(buf), m)

\* broadcast::Receiver::recv: Err(Lagged) once after values were overwritten,
\* else the oldest unread value, else Err(Closed) when every Sender is
\* gone; with none of these it waits.
BroadcastRecv ==
    IF wsMissed > 0 THEN "Lagged"
    ELSE IF wsBuf # <<>> THEN "Ok"
    ELSE IF ~wsOpen THEN "Closed"
    ELSE "wait"

\* ws_transport.rs 88-104 and 136-152: receive() gives Ok(Some(msg)) for a
\* value and Ok(None) for either error of recv().
WsReceiveResult(r) == IF r = "Ok" THEN Head(wsBuf) ELSE "None"

\* ws_transport.rs 260-270 (handle_ws_connection) and 216-226 (the client's
\* read task): a text frame that parses is sent to the broadcast channel.
WsForward(m) ==
    /\ wsOpen
    /\ wsForwarded < MaxWsMsgs
    /\ wsForwarded' = wsForwarded + 1
    /\ wsBuf' = BroadcastSend(wsBuf, m)
    /\ wsMissed' = IF Len(wsBuf) < WsCapacity THEN wsMissed ELSE wsMissed + 1
    /\ UNCHANGED <<wsOpen, wsListen, wsRecvLog>>
    /\ UNCHANGED <<coreVars, tpVars, notWsVars>>

\* ws_transport.rs 279-285: the connection ends, the forwarding task
\* returns and drops the Sender.
WsConnectionClosed ==
    /\ wsOpen
    /\ wsOpen' = FALSE
    /\ UNCHANGED <<wsBuf, wsMissed, wsForwarded, wsListen, wsRecvLog>>
    /\ UNCHANGED <<coreVars, tpVars, notWsVars>>

\* protocol.rs 92-105 over ws_transport.rs 88-104: listen() calls receive();
\* a message is dispatched and the loop goes on, None breaks the loop.
WsListenReceive ==
    /\ wsListen = "top"
    /\ BroadcastRecv # "wait"
    /\ wsRecvLog' = Append(wsRecvLog, WsReceiveResult(BroadcastRecv))
    /\ wsBuf' = IF BroadcastRecv = "Ok" THEN Tail(wsBuf) ELSE wsBuf
    /\ wsMissed' = IF BroadcastRecv = "Lagged" THEN 0 ELSE wsMissed
    /\ wsListen' = IF WsReceiveResult(BroadcastRecv) = "None" THEN "done" ELSE "top"
    /\ UNCHANGED <<wsOpen, wsForwarded>>
    /\ UNCHANGED <<coreVars, tpVars, notWsVars>>

\* One WebSocket connection: frames arrive at any pace, the engine's
\* listen() receives at its own, the connection closes at any moment.
NextWs ==
    \/ \E m \in Msgs : WsForward(m)
    \/ WsConnectionClosed
    \/ WsListenReceive

SpecWs == InitProtocol /\ [][NextWs]_vars

\* ------------------------------------------------------------ claims

\* C1: for every inbound Request listen() has handled, exactly one Response
\* was handed to the transport and it carries the request's id, whether the
\* handler succeeded, failed or was missing; never more than one is sent.
C1_OneResponsePerRequest ==
    \A e \in Engines :
        listen[e].cur.kind = "req" =>
            /\ Len(curSent[e]) <= 1
            /\ \A n \in 1..Len(curSent[e]) :
                   curSent[e][n].kind = "resp" /\ curSent[e][n].id = listen[e].cur.id
            /\ listen[e].pc = "top" => Len(curSent[e]) = 1

\* A request with a nonzero id whose handler failed has been answered.
C1_Witness ==
    /\ listen["s"].pc = "top"
    /\ listen["s"].cur.kind = "req"
    /\ listen["s"].cur.method = "fail"
    /\ listen["s"].cur.id = 1
    /\ curSent["s"] = <<ErrorResponse(1, ErrInternalError, "handler failed")>>

\* C2: a call is delivered at most one Response; a Response whose id is not
\* in the pending table reaches no call and leaves the table as it is, and a
\* Response whose id is pending removes that entry alone and reaches that
\* call alone.
C2_AtMostOneDelivery ==
    [][\A e \in Engines :
          (HasReceived(e, "resp") /\ listen'[e] # listen[e]) =>
              LET i == Received(e).id
              IN /\ pending_requests'[e] = {x \in pending_requests[e] : x[1] # i}
                 /\ \A k \in CallIds :
                        /\ calls'[k].delivered <= 1
                        /\ <<i, k>> \notin pending_requests[e] => calls'[k] = calls[k]]_vars

\* A call has returned its Response, and a second, different Response with
\* the same id has been processed since.
C2_Witness ==
    \E k \in CallIds :
        /\ calls[k].pc = "done"
        /\ calls[k].result = "Ok"
        /\ calls[k].delivered = 1
        /\ listen["c"].pc = "top"
        /\ listen["c"].cur.kind = "resp"
        /\ listen["c"].cur.id = calls[k].id
        /\ listen["c"].cur # calls[k].val

\* C3: the Response a call holds is the one whose id was allocated to it.
C3_OwnResponse ==
    \A k \in CallIds :
        calls[k].slot = "value" =>
            calls[k].val.kind = "resp" /\ calls[k].val.id = calls[k].id

\* Two calls are outstanding and the later one was answered first.
C3_Witness ==
    /\ calls[1].pc = "await"
    /\ calls[1].slot = "empty"
    /\ calls[2].pc = "await"
    /\ calls[2].slot = "value"
    /\ calls[2].val.id = 1

\* C4: the step in which listen() handles a Notification hands nothing to
\* the transport, with or without a handler and whether the handler fails.
C4_NoReplyToNotification ==
    [][\A e \in Engines :
          (HasReceived(e, "notif") /\ listen'[e] # listen[e]) =>
              /\ q'[Peer(e)] = q[Peer(e)]
              /\ curSent'[e] = curSent[e]]_vars

\* A notification whose handler failed has been handled.
C4_Witness ==
    /\ listen["s"].cur = Notification("n_fail")
    /\ listen["s"].pc = "failed"

\* C5 (as claimed): when request() has failed with a timeout, its id is no
\* longer in the pending table.
C5_TimeoutRemovesEntry ==
    \A k \in CallIds :
        (calls[k].pc = "done" /\ calls[k].result = "Timeout") =>
            calls[k].id \notin PendingIds(calls[k].eng)

\* C6 (as claimed): once close() has dropped the transport's channels,
\* listen() on it never sees receive() fail, and when nothing is left to
\* happen it has returned Ok.
C6_ListenExitsAfterClose ==
    closePc \in {"c3", "closed"} =>
        /\ listen["c"].last # "err"
        /\ ~Busy => listen["c"].pc = "done"

\* C7 (as claimed): a request() that was waiting when the transport was
\* closed ends with the cancellation error and its id is no longer pending.
C7_CloseCancelsPending ==
    \A k \in CallIds :
        (calls[k].pc = "done" /\ calls[k].wc) =>
            /\ calls[k].result = "Cancelled"
            /\ calls[k].id \notin PendingIds(calls[k].eng)

\* C8 (as claimed): after a request to the handler that never completes has
\* timed out, a following request to "echo" with the default timeout yields
\* its Response.
C8_NextRequestSucceeds ==
    \A k \in CallIds :
        (/\ k > 1
         /\ clientApi = "Protocol"
         /\ calls[k - 1].method = "hang"
         /\ calls[k].prev = "Timeout"
         /\ calls[k].method = "echo"
         /\ calls[k].tmo = "long"
         /\ calls[k].pc = "done") => calls[k].result = "Ok"

\* C9 (as claimed): a Client's request("echo", params) with the default
\* timeout yields the Response carrying exactly those params.
C9_ClientEcho ==
    \A k \in CallIds :
        (/\ clientApi = "Client"
         /\ calls[k].method = "echo"
         /\ calls[k].tmo = "long"
         /\ calls[k].pc = "done") =>
            /\ calls[k].result = "Ok"
            /\ calls[k].val = Response(calls[k].id, calls[k].params)

\* C10: the ids request() allocated on one engine are 0, 1, 2, ... in
\* allocation order: pairwise distinct and strictly increasing from 0.
C10_IdsMonotonic ==
    \A e \in Engines :
        \A n \in 1..Len(allocLog[e]) : allocLog[e][n] = n - 1

\* Every call has allocated its id and two of them have not yet registered it.
C10_Witness ==
    /\ Len(allocLog["c"]) = MaxCalls
    /\ calls[1].pc = "alloc"
    /\ calls[2].pc = "alloc"
    /\ calls[1].id # calls[2].id

\* C11 (as claimed): the requests of one engine reach the transport in the
\* order of their ids: in the channel the client engine sends on, a request
\* with a smaller id always precedes one with a larger id.
C11_SendOrderFollowsIds ==
    \A m, n \in 1..Len(q["s"]) :
        (m < n /\ q["s"][m].kind = "req" /\ q["s"][n].kind = "req") =>
            q["s"][m].id < q["s"][n].id

\* C12: handler invocations of one listen() are strictly serialized.  At most
\* one handler is in progress, and only while listen() awaits it; a handler
\* starts only for a message receive() just returned; and listen() calls
\* receive() again only when no handler is running and, if the previous
\* message was a request, exactly one Response to it has been sent.
C12_HandlersSerialized ==
    /\ [](\A e \in Engines :
              /\ handlers[e] <= 1
              /\ handlers[e] = 1 <=> listen[e].pc = "inhandler")
    /\ [][\A e \in Engines :
              /\ handlers'[e] > handlers[e] => listen[e].pc = "inrecv" /\ handlers[e] = 0
              /\ (listen[e].pc # "inrecv" /\ listen'[e].pc = "inrecv") =>
                     /\ handlers[e] = 0
                     /\ listen[e].cur.kind = "req" =>
                            /\ Len(curSent[e]) = 1
                            /\ curSent[e][1].id = listen[e].cur.id]_vars

\* The handler of a second request is running; the first request was
\* answered before it started.
C12_Witness ==
    /\ listen["s"].pc = "inhandler"
    /\ handlers["s"] = 1
    /\ Len(q["c"]) = 1
    /\ q["c"][1].kind = "resp"
    /\ q["s"] = <<>>
    /\ injected = 2

\* C13: a request whose method has no handler is answered with one Response
\* that carries the request's id, no result, the code -32601 and a message
\* containing the method name.
C13_MethodNotFound ==
    \A e \in Engines :
        (/\ listen[e].pc = "top"
         /\ listen[e].cur.kind = "req"
         /\ listen[e].cur.method \notin RequestHandlers(e)) =>
            /\ Len(curSent[e]) = 1
            /\ curSent[e][1].kind = "resp"
            /\ curSent[e][1].id = listen[e].cur.id
            /\ curSent[e][1].val = None
            /\ curSent[e][1].code = -32601
            /\ Contains(curSent[e][1].msg, listen[e].cur.method)

\* The request "nosuch" with id 1 has been answered.
C13_Witness ==
    /\ listen["s"].pc = "top"
    /\ listen["s"].cur = Request(1, "nosuch", "p1")
    /\ curSent["s"] = <<ErrorResponse(1, ErrMethodNotFound, "Method not found: nosuch")>>

\* C14: a request whose handler returned an error is answered with one
\* Response carrying the request's id, no result, the code -32603 and the
\* handler's error text as message, and listen() is back at the top of its
\* loop; listen() returns instead only when that send fails.
C14_HandlerErrorIsInternalError ==
    \A e \in Engines :
        (/\ listen[e].cur.kind = "req"
         /\ listen[e].cur.method = "fail"
         /\ listen[e].cur.method \in RequestHandlers(e)
         /\ listen[e].pc # "inhandler") =>
            IF listen[e].pc = "top"
            THEN /\ Len(curSent[e]) = 1
                 /\ curSent[e][1].kind = "resp"
                 /\ curSent[e][1].id = listen[e].cur.id
                 /\ curSent[e][1].val = None
                 /\ curSent[e][1].code = -32603
                 /\ curSent[e][1].msg = "handler failed"
            ELSE /\ listen[e].pc = "failed"
                 /\ curSent[e] = <<>>
                 /\ ~TransportSendOk(e)

\* A failed handler has been answered and the next message is waiting in
\* the channel for the receive() that follows.
C14_Witness ==
    /\ listen["s"].pc = "top"
    /\ listen["s"].cur = Request(0, "fail", "p1")
    /\ curSent["s"] = <<ErrorResponse(0, ErrInternalError, "handler failed")>>
    /\ Len(q["s"]) = 1

\* C15 (as claimed): a request whose params do not deserialize into the
\* handler's parameter type is answered with the code -32602 (InvalidParams)
\* and the user's handler is not called.
C15_InvalidParams ==
    \A e \in Engines :
        (/\ listen[e].pc = "top"
         /\ listen[e].cur.kind = "req"
         /\ listen[e].cur.method \in RequestHandlers(e)
         /\ ~Deserializes(listen[e].cur.val)) =>
            /\ ~HandlerResult(listen[e].cur).invoked
            /\ Len(curSent[e]) = 1
            /\ curSent[e][1].code = -32602

\* C16 (as claimed): after a notification whose handler returned an error,
\* listen() has not returned: it is back at the top of its loop, from where
\* the messages that follow are received and dispatched.
C16_NotificationErrorOnlyLogged ==
    \A e \in Engines :
        (/\ listen[e].cur.kind = "notif"
         /\ listen[e].cur.method \in NotificationHandlers(e)) =>
            listen[e].pc = "top"

\* C17: a receive() that fails is survived.  The step that handles the
\* failure leaves listen() at the top of its loop, sends nothing and leaves
\* the pending table alone; listen() never ends on a failed receive(); and a
\* request dispatched after a failure gets the one Response it would have
\* got without it.
C17_ReceiveFailureContinues ==
    /\ [][\A e \in Engines :
              (HasReceived(e, "bad") /\ listen'[e] # listen[e]) =>
                  /\ listen'[e].pc = "top"
                  /\ q'[Peer(e)] = q[Peer(e)]
                  /\ pending_requests' = pending_requests]_vars
    /\ [](\A e \in Engines :
              /\ listen[e].last = "err" => listen[e].pc \in {"top", "inrecv"}
              /\ (recvFailed[e] /\ listen[e].pc = "top" /\ listen[e].cur.kind = "req") =>
                     curSent[e] = <<IF listen[e].cur.method \in RequestHandlers(e)
                                    THEN HandlerResponse(listen[e].cur)
                                    ELSE MethodNotFoundResponse(listen[e].cur)>>)

\* receive() failed on a frame, and the request that followed was answered.
C17_Witness ==
    /\ recvFailed["s"]
    /\ listen["s"].pc = "top"
    /\ listen["s"].cur = Request(0, "echo", "p1")
    /\ curSent["s"] = <<Response(0, "p1")>>

\* C18 (as claimed): the server is initialized only after an initialize
\* request: whenever initialized is true, the client's capabilities and
\* client_info have been captured.
C18_InitializedOnlyAfterInitialize ==
    state.initialized =>
        state.client_capabilities # None /\ state.client_info # None

\* C19: the default tools handlers are installed exactly when the user
\* registered no tools/list.  A tools request the server has answered got
\* the registry's answer when the user gave no tools/list handler (also when
\* the user gave one for tools/call); otherwise it got the user's handler's
\* answer, or MethodNotFound when the user gave none for that method.
C19_DefaultToolsHandlers ==
    (/\ listen["s"].pc = "top"
     /\ listen["s"].cur.kind = "req"
     /\ listen["s"].cur.method \in ToolMethods) =>
        /\ Len(curSent["s"]) = 1
        /\ LET req == listen["s"].cur
               resp == curSent["s"][1]
           IN IF "tools/list" \notin user_handlers
              THEN /\ resp.code = 0
                   /\ req.method = "tools/list" => resp.val = "tools: known"
                   /\ req.method = "tools/call" =>
                          resp.val \in {"called known", "Tool missing not found"}
              ELSE IF req.method \in user_handlers
                   THEN resp.code = 0 /\ resp.val = "user " \o req.method
                   ELSE resp.code = -32601 /\ resp.val = None

\* The user registered tools/list alone, and a tools/call request found no
\* handler.
C19_Witness ==
    /\ user_handlers = {"tools/list"}
    /\ listen["s"].pc = "top"
    /\ listen["s"].cur = Request(1, "tools/call", "known")
    /\ curSent["s"] = <<ErrorResponse(1, ErrMethodNotFound, "Method not found: tools/call")>>

\* C20: with the default tools handlers, a tools/call request naming a tool
\* that is not registered is answered with a success Response (a result, no
\* error) whose is_error is true and whose text contains the tool name.
C20_UnknownToolIsSuccessEnvelope ==
    (/\ listen["s"].pc = "top"
     /\ listen["s"].cur.kind = "req"
     /\ listen["s"].cur.method = "tools/call"
     /\ "tools/list" \notin user_handlers
     /\ listen["s"].cur.val \notin RegisteredTools) =>
        /\ Len(curSent["s"]) = 1
        /\ curSent["s"][1].kind = "resp"
        /\ curSent["s"][1].id = listen["s"].cur.id
        /\ curSent["s"][1].code = 0
        /\ curSent["s"][1].msg = ""
        /\ curSent["s"][1].val # None
        /\ curSent["s"][1].is_error
        /\ Contains(curSent["s"][1].val, listen["s"].cur.val)

\* After initialize, the call of the tool "missing" has been answered.
C20_Witness ==
    /\ state.client_info # None
    /\ user_handlers = {}
    /\ listen["s"].pc = "top"
    /\ listen["s"].cur = Request(1, "tools/call", "missing")
    /\ Len(curSent["s"]) = 1
    /\ curSent["s"][1].is_error

\* C21: the tokens create_progress allocated are progress-0, progress-1, ...
\* in allocation order, hence pairwise distinct; and while the client has
\* not dropped its receiver, the channel to the client holds $/progress
\* notifications only, one per successful call and with that call's token;
\* a call fails only when its send did, and then it sent nothing.
C21_ProgressTokens ==
    /\ \A i \in 1..Len(tokenLog) : tokenLog[i] = "progress-" \o ToString(i - 1)
    /\ \A i, j \in 1..Len(tokenLog) : i # j => tokenLog[i] # tokenLog[j]
    /\ \A k \in 1..MaxProgress : progress[k].result = "SendErr" => ~cl_rx
    /\ cl_rx =>
           /\ \A n \in 1..Len(q["c"]) :
                  q["c"][n].kind = "notif" /\ q["c"][n].method = "$/progress"
           /\ \A t \in {progress[k].token : k \in 1..MaxProgress} \cup {q["c"][n].val : n \in 1..Len(q["c"])} :
                  Cardinality({n \in 1..Len(q["c"]) : q["c"][n].val = t})
                      = Cardinality({k \in 1..MaxProgress :
                            progress[k].result = "Ok" /\ progress[k].token = t})

\* Two create_progress calls hold their tokens at once, neither has sent its
\* notification yet, and an update_progress has completed.
C21_Witness ==
    \E a, b, c \in 1..MaxProgress :
        /\ progress[a].pc = "built" /\ progress[a].op = "create"
        /\ progress[b].pc = "built" /\ progress[b].op = "create"
        /\ progress[a].token = "progress-0"
        /\ progress[b].token = "progress-1"
        /\ progress[c].pc = "done" /\ progress[c].op = "update"
        /\ progress[c].result = "Ok"

\* C22 (as claimed): once close() has completed on the client transport, a
\* receive() called on it does not fail: it returns None.
C22_ClosedTransport ==
    [][(/\ closePc = "closed"
        /\ listen["c"].pc = "top"
        /\ listen'["c"] # listen["c"]) => listen'["c"].last # "err"]_vars

\* C23: a second close() on a transport whose close() has completed returns
\* Ok and changes nothing: the channels, the two ends' state and the engines
\* are as the first close() left them.
C23_CloseIdempotent ==
    [][(closePc = "closed" /\ closePc' # "closed") =>
           /\ closePc' = "reclosed"
           /\ cl_tx' = cl_tx
           /\ cl_rx' = cl_rx
           /\ q' = q
           /\ coreVars' = coreVars]_vars

\* The second close() has returned.
C23_Witness ==
    /\ closePc = "reclosed"
    /\ ~cl_tx
    /\ ~cl_rx
    /\ ServerTaskEnded

\* C24: while the peer holds its end, the messages whose send() returned Ok
\* are exactly those the peer has received followed by those the channel
\* still holds, in order, also after close(); and a send() made once close()
\* has begun returns Err and leaves the channels as they were.
C24_SentBeforeCloseObservable ==
    /\ []((factory # "none" /\ ~TaskEnded) => SentOk = taskLog \o chan.up)
    /\ [][(closing # "idle" /\ sendLog' # sendLog) =>
              /\ ~sendLog'[Len(sendLog')].ok
              /\ chan' = chan]_vars

\* After close() began, a send() has failed while a message sent before it
\* is still in the channel of a peer that can receive it.
C24_Witness ==
    /\ closing # "idle"
    /\ ~TaskEnded
    /\ chan.up # <<>>
    /\ \E i \in 1..Len(sendLog) : ~sendLog[i].ok
    /\ \E i \in 1..Len(sendLog) : sendLog[i].ok

\* C25: with the echo server, what the client's receive() calls returned is
\* a prefix of what its send() calls submitted, and until close() every
\* submitted message is either delivered or on its way, in submission order.
C25_EchoInOrder ==
    factory = "echo_server" =>
        LET inTask == IF task.pc = "send" THEN <<task.msg>> ELSE <<>>
        IN /\ Len(Delivered) <= Len(SentOk)
           /\ Delivered = SubSeq(SentOk, 1, Len(Delivered))
           /\ closing = "idle" =>
                  SentOk = Delivered \o chan.down \o inTask \o chan.up

\* Three messages, not all equal, went out and came back.
C25_Witness ==
    /\ factory = "echo_server"
    /\ Len(Delivered) = MaxSend
    /\ Delivered[1] # Delivered[2]
    /\ closing = "idle"

\* C26 (as claimed): a close() that was called while a receive() is suspended
\* never waits for the server task: it is not parked behind the receive()
\* with nothing but the task's end able to release it.
C26_CloseDoesNotWaitForServer ==
    ~(/\ closing = "rxwait"
      /\ reader = "inrecv"
      /\ chan.down = <<>>
      /\ ~TaskEnded)

\* C27: close() on a child that does not exit by itself (sleep) or waits for
\* input (read), neither of which writes anything, returns with the child
\* ended and the handle cleared, and every receive() made on the opened
\* transport, the one in progress during close() included, gives Ok(None):
\* stdout stays Some, once close() has returned a waiting receive() sees the
\* end of file, and the only other result is that of a receive() made before
\* open().
C27_StdioCloseEndsChild ==
    program \in {"sleep", "read"} =>
        /\ stdioClose = "done" => (proc = "exited" /\ ~child)
        /\ stdout
        /\ (stdioClose = "done" /\ stdioReader = "inrecv") => StdoutAtEof
        /\ \A i \in 1..Len(stdioRecvLog) :
               stdioRecvLog[i] \in {"None", "Transport not opened"}

\* close() has killed the sleeping child and the receive() that was in
\* progress has returned.
C27_Witness ==
    /\ program = "sleep"
    /\ stdioClose = "done"
    /\ signals # <<>>
    /\ stdioRecvLog = <<"None">>
    /\ ~child

\* C28 (as claimed): the force kill is the last phase, entered only after a
\* terminate signal was sent and waited on, so every kill signal close()
\* sends is preceded by a terminate signal.
C28_TerminateBeforeKill ==
    \A i \in 1..Len(signals) :
        signals[i] = "SIGKILL" => \E j \in 1..(i - 1) : signals[j] = "SIGTERM"

\* C29: every POST /message is answered 400 without a session id, 404 with
\* an id that is not in the table, 400 for a WebSocket session, and in these
\* three cases no channel changes; for an SSE session it is answered 202 and
\* the message is appended to that session's channel and to no other.
C29_MessageHandlerStatus ==
    [][httpLog' # httpLog =>
          LET r == httpLog'[Len(httpLog')]
          IN /\ r.sid = None => (r.status = 400 /\ inbox' = inbox)
             /\ (r.sid # None /\ r.sid \notin DOMAIN sessions) =>
                    (r.status = 404 /\ inbox' = inbox)
             /\ (r.sid \in DOMAIN sessions /\ sessions[r.sid] = "Ws") =>
                    (r.status = 400 /\ inbox' = inbox)
             /\ (r.sid \in DOMAIN sessions /\ sessions[r.sid] = "Sse") =>
                    (/\ r.status = 202
                     /\ inbox' = [inbox EXCEPT ![r.sid] = Append(@, r.msg)])]_vars

\* All the four answers have been given.
C29_Witness ==
    /\ \E i \in 1..Len(httpLog) : httpLog[i].status = 202
    /\ \E i \in 1..Len(httpLog) : httpLog[i].status = 400
    /\ \E x \in DOMAIN sessions : sessions[x] = "Ws"
    /\ \E x \in DOMAIN sessions : inbox[x] # <<>>

\* C30 (as claimed): the session table holds only the sessions of connections
\* that are still open.
C30_TableHoldsOpenConnections == DOMAIN sessions \subseteq conns

\* C31 (as claimed): once the whole stream has been read, the messages
\* pushed to the inbound queue are the texts that were framed, whatever the
\* cuts; stated for texts of ASCII characters read in one piece.
C31_FramingRoundTrips ==
    (/\ sseWire = <<>>
     /\ sseStream # <<>>
     /\ \A i \in 1..Len(sseSent) : \A k \in 1..Len(sseSent[i]) : sseSent[i][k] \notin {"L", "T"})
    => AfterReads(<<>>, <<>>, <<sseStream>>) = sseSent

\* C32 (as claimed): once the whole stream has been read, the inbound queue
\* holds what it would hold had the stream arrived in a single read.
C32_ChunkingIndependent ==
    sseWire = <<>> => sseInbound = AfterReads(<<>>, <<>>, <<sseStream>>)

\* C33: when listen() processes a Response whose id belongs to a request()
\* that has ended with a timeout, no call changes, nothing is sent, listen()
\* goes on to its next receive(), and the id is not in the pending table
\* afterwards.
C33_LateResponseDropped ==
    [][(/\ HasReceived("c", "resp")
        /\ listen'["c"] # listen["c"]
        /\ \E k \in CallIds : /\ calls[k].id = Received("c").id
                              /\ calls[k].result = "Timeout")
       => /\ calls' = calls
          /\ q'["s"] = q["s"]
          /\ listen'["c"].pc = "top"
          /\ Received("c").id \notin PendingIds("c")']_vars

\* A Response for a timed-out request has been processed; the entry that the
\* timeout had left in the table is gone.
C33_Witness ==
    \E k \in CallIds :
        /\ calls[k].result = "Timeout"
        /\ calls[k].delivered = 0
        /\ listen["c"].pc = "top"
        /\ listen["c"].cur.kind = "resp"
        /\ listen["c"].cur.id = calls[k].id
        /\ calls[k].id \notin PendingIds("c")

\* C34 (as claimed): a Notification whose params do not deserialize is
\* dropped: its handler is not invoked, so the server state stays as it is,
\* and listen() goes on to its next receive().
C34_BadNotificationDropped ==
    [][(/\ HasReceived("s", "notif")
        /\ ~Deserializes(Received("s").val)
        /\ listen'["s"] # listen["s"])
       => /\ state' = state
          /\ listen'["s"].pc = "top"]_vars

\* C35: a session id that an endpoint event has advertised is in the session
\* table, and a POST /message that carries an advertised id is never
\* answered 404.
C35_AdvertisedSessionRegistered ==
    /\ [](advertised \subseteq DOMAIN sessions)
    /\ [][httpLog' # httpLog =>
             (httpLog'[Len(httpLog')].sid \in advertised =>
                  httpLog'[Len(httpLog')].status # 404)]_vars

\* A POST to an advertised session has been accepted, and one to an id that
\* no event advertised was answered 404.
C35_Witness ==
    /\ \E i \in 1..Len(httpLog) : httpLog[i].sid \in advertised /\ httpLog[i].status = 202
    /\ \E i \in 1..Len(httpLog) : httpLog[i].status = 404

\* C36: a request() that returned the error of transport.send has left no
\* entry under its id in the pending table.
C36_SendFailureCleansPending ==
    \A k \in CallIds :
        (calls[k].pc = "done" /\ calls[k].result = "SendErr")
            => calls[k].id \notin PendingIds(calls[k].eng)

\* C37: while the handler that issued it is still running, a request() made
\* from inside a request handler on the engine whose listen() awaits that
\* handler has no Response delivered to it: once sent it ends by timeout only.
C37_NestedRequestTimesOut ==
    \A k \in CallIds :
        calls[k].nested =>
            /\ calls[k].slot = "empty"
            /\ calls[k].pc = "done" => calls[k].result = "Timeout"

\* The nested request has timed out in the running handler while the peer's
\* Response to it waits in the channel, and a request() made outside the
\* handler has got its Response.
C37_Witness ==
    /\ InNestedHandler("s")
    /\ \E k \in CallIds :
          /\ calls[k].nested
          /\ calls[k].result = "Timeout"
          /\ \E i \in 1..Len(q["s"]) :
                q["s"][i].kind = "resp" /\ q["s"][i].id = calls[k].id
    /\ \E k \in CallIds : ~calls[k].nested /\ calls[k].result = "Ok"

\* C38: the Response to a request for a method the user registered a
\* handler for is the one the user's handler returns, for tools/call and for
\* initialize too.
C38_UserHandlerKept ==
    \A m \in user_handlers :
        (/\ listen["s"].pc = "top"
         /\ listen["s"].last = "msg"
         /\ listen["s"].cur.kind = "req"
         /\ listen["s"].cur.method = m
         /\ curSent["s"] # <<>>)
            => curSent["s"][Len(curSent["s"])].val = "user " \o m

\* C39: whenever close() has returned, with Ok or with an error, the stdin
\* and child handles are None and no child is left running or unreaped.
C39_StdioCloseReleasesOnError ==
    stdioClose \in {"done", "failed"} => (~stdin /\ ~child /\ proc # "running")

\* C40: receive() on a WebSocket transport has returned None, and listen()
\* has left its loop, only when the connection is closed; a burst that
\* overruns the channel loses messages and no more.
C40_NoneOnlyWhenClosed ==
    wsListen = "done" => ~wsOpen

=============================================================================
